---- MODULE Spec2Model ----
(***************************************************************************)
(* Field kernel of the fields visualizer: point evaluation of the field   *)
(* (src/src/physics/field.ts), the two-source equilibrium solver          *)
(* (findEquilibriumPoint) and the field-line tracer                       *)
(* (src/src/components/FieldFlow.tsx).                                    *)
(*                                                                         *)
(* Numbers.  A JavaScript number is modelled as an exact rational          *)
(* <<n, d>> in lowest terms with d > 0, so "equal" below means equal as    *)
(* real numbers.  Math.sqrt is exact: the inputs of every specification    *)
(* are chosen so that each square root taken is the root of a rational     *)
(* square, or (for the square roots of the source values) a rational       *)
(* multiple of one common surd.  TLC integers have 32 bits; an input that  *)
(* would need more makes TLC stop with an overflow error instead of        *)
(* giving a wrong answer.                                                  *)
(*                                                                         *)
(* Units.  Positions are scene units and metres as in the code, source     *)
(* values are the numbers the store holds.  A field value is carried as    *)
(* the code's value divided by 10^FieldExp10(mode): an electric field in   *)
(* units of 1e10 N/C, which makes the Coulomb constant 8.99e9 the rational *)
(* 899/1000, and a gravitational field in units of 1e-10 N/kg, which makes *)
(* the gravitational constant 6.674e-11 the rational 6674/10000.  Every    *)
(* comparison of a field magnitude with a threshold of the code is made    *)
(* on the unscaled value (BelowPow10).                                     *)
(***************************************************************************)
EXTENDS Integers, Sequences, FiniteSets, TLC

(***************************************************************************)
(* Exact rational arithmetic                                               *)
(***************************************************************************)
Abs(n) == IF n < 0 THEN -n ELSE n

RECURSIVE Gcd(_, _)
Gcd(a, b) == IF b = 0 THEN a ELSE Gcd(b, a % b)

Lcm(a, b) == (a \div Gcd(a, b)) * b

\* n/d in lowest terms, d > 0
Rat(n, d) ==
  LET g == Gcd(Abs(n), Abs(d))
      s == IF d < 0 THEN -1 ELSE 1
  IN  <<(s * n) \div g, (s * d) \div g>>

Zero == <<0, 1>>
One == <<1, 1>>
Int2R(n) == <<n, 1>>

RNeg(a) == <<-a[1], a[2]>>
RAbs(a) == <<Abs(a[1]), a[2]>>
RSign(a) == IF a[1] > 0 THEN 1 ELSE IF a[1] < 0 THEN -1 ELSE 0

\* a * b, cancelling across before multiplying
RMul(a, b) ==
  LET g1 == Gcd(Abs(a[1]), b[2])
      g2 == Gcd(Abs(b[1]), a[2])
  IN  <<(a[1] \div g1) * (b[1] \div g2), (a[2] \div g2) * (b[2] \div g1)>>

RInv(a) == IF a[1] < 0 THEN <<-a[2], -a[1]>> ELSE <<a[2], a[1]>>
RDiv(a, b) == RMul(a, RInv(b))

\* a + b over the least common denominator, the common factor of the
\* numerators taken out first
RAdd(a, b) ==
  IF a[1] = 0 THEN b
  ELSE IF b[1] = 0 THEN a
  ELSE LET g == Gcd(Abs(a[1]), Abs(b[1]))
           L == Lcm(a[2], b[2])
           s == (a[1] \div g) * (L \div a[2]) + (b[1] \div g) * (L \div b[2])
       IN  RMul(<<g, 1>>, Rat(s, L))

RSub(a, b) == RAdd(a, RNeg(b))
RLt(a, b) == RSign(RSub(a, b)) < 0
RLe(a, b) == RSign(RSub(a, b)) <= 0
RMax(a, b) == IF RLt(a, b) THEN b ELSE a

\* floor of the square root of a natural number (Newton iteration)
RECURSIVE ISqrtFrom(_, _)
ISqrtFrom(n, x) ==
  LET y == (x + n \div x) \div 2
  IN  IF y >= x THEN x ELSE ISqrtFrom(n, y)

ISqrt(n) == IF n < 2 THEN n ELSE ISqrtFrom(n, n)
IsSquare(n) == ISqrt(n) * ISqrt(n) = n

\* x is the square of a rational
RIsSquare(a) == a[1] >= 0 /\ IsSquare(a[1]) /\ IsSquare(a[2])
\* Math.sqrt on a rational square
RSqrt(a) == <<ISqrt(a[1]), ISqrt(a[2])>>

RECURSIVE Pow10(_)
Pow10(k) == IF k = 0 THEN 1 ELSE 10 * Pow10(k - 1)

\* a * 10^k for any integer k
RScale10(a, k) ==
  IF k >= 0 THEN RMul(a, <<Pow10(k), 1>>) ELSE RMul(a, <<1, Pow10(-k)>>)

\* a * 10^e < 10^(-k) for a >= 0: the comparison of an unscaled magnitude
\* with a threshold 1e-k of the code.  A representable denominator is below
\* 10^10, so for k - e >= 10 only zero is below the threshold.
BelowPow10(a, e, k) ==
  LET j == k + e
  IN  IF j >= 10 THEN a[1] <= 0
      ELSE IF j >= 0 THEN a[1] <= (a[2] - 1) \div Pow10(j)
      ELSE IF -j >= 10 THEN TRUE
      ELSE a[1] \div Pow10(-j) < a[2]

(***************************************************************************)
(* Square roots of the source values: c * sqrt(rad), c rational, rad a     *)
(* square-free positive integer (rad = 1: a rational)                      *)
(***************************************************************************)
\* <<s, m>> with n * k * k = s * s * m (up to the factor carried in s), the
\* squares of p, p+1, ... taken out of n one after the other
RECURSIVE SquarePart(_, _, _)
SquarePart(n, p, s) ==
  IF p * p > n THEN <<s, n>>
  ELSE IF n % (p * p) = 0 THEN SquarePart(n \div (p * p), p, s * p)
  ELSE SquarePart(n, p + 1, s)

\* Math.sqrt(a) for a rational a >= 0: sqrt(n/d) = sqrt(n*d) / d
SurdSqrt(a) ==
  IF a[1] = 0 THEN [c |-> Zero, rad |-> 1]
  ELSE LET sp == SquarePart(a[1] * a[2], 2, 1)
       IN  [c |-> Rat(sp[1], a[2]), rad |-> sp[2]]

\* the two surds are rational multiples of one square root
Commensurable(a, b) == a.c = Zero \/ b.c = Zero \/ a.rad = b.rad

SurdAdd(a, b) ==
  [c |-> RAdd(a.c, b.c), rad |-> IF a.c = Zero THEN b.rad ELSE a.rad]
SurdSub(a, b) ==
  [c |-> RSub(a.c, b.c), rad |-> IF a.c = Zero THEN b.rad ELSE a.rad]
SurdTimes(a, r) == [c |-> RMul(a.c, r), rad |-> a.rad]
\* a / b for commensurable a and b # 0: a rational
SurdOver(a, b) == RDiv(a.c, b.c)

(***************************************************************************)
(* Vectors: triples of rationals                                           *)
(***************************************************************************)
Range(s) == { s[i] : i \in DOMAIN s }

Vec(x, y, z) == <<x, y, z>>
ZeroVec == <<Zero, Zero, Zero>>
VAdd(u, v) == <<RAdd(u[1], v[1]), RAdd(u[2], v[2]), RAdd(u[3], v[3])>>
VSub(u, v) == <<RSub(u[1], v[1]), RSub(u[2], v[2]), RSub(u[3], v[3])>>
VScale(c, v) == <<RMul(c, v[1]), RMul(c, v[2]), RMul(c, v[3])>>
VDivR(v, c) == <<RDiv(v[1], c), RDiv(v[2], c), RDiv(v[3], c)>>

\* the largest rational g > 0 of which x, y and z are integer multiples
\* (x, y, z not all zero)
CommonMeasure(x, y, z) ==
  Rat(Gcd(Gcd(Abs(x[1]), Abs(y[1])), Abs(z[1])), Lcm(Lcm(x[2], y[2]), z[2]))

\* x*x + y*y + z*z is the square of a rational
HasExactNorm(x, y, z) ==
  IF x = Zero /\ y = Zero /\ z = Zero THEN TRUE
  ELSE LET g == CommonMeasure(x, y, z)
           a == RDiv(x, g)[1]
           b == RDiv(y, g)[1]
           c == RDiv(z, g)[1]
       IN  IsSquare(a * a + b * b + c * c)

\* Math.sqrt(x*x + y*y + z*z), evaluated as g * sqrt(a*a + b*b + c*c) with
\* (x, y, z) = g * (a, b, c) and a, b, c coprime integers
Norm3(x, y, z) ==
  IF x = Zero /\ y = Zero /\ z = Zero THEN Zero
  ELSE LET g == CommonMeasure(x, y, z)
           a == RDiv(x, g)[1]
           b == RDiv(y, g)[1]
           c == RDiv(z, g)[1]
       IN  RMul(g, <<ISqrt(a * a + b * b + c * c), 1>>)

VNorm(v) == Norm3(v[1], v[2], v[3])

(***************************************************************************)
(* physics/constants.ts and physics/units.ts                               *)
(***************************************************************************)
Modes == {"electric", "gravity"}

\* NONE: not computed yet; NULL: the null a function returns
NONE == "none"
NULL == "null"

\* the decimal exponent of the unit a field value of that mode is carried in
FieldExp10(mode) == IF mode = "electric" THEN 10 ELSE -10

COULOMB_CONSTANT == Rat(899, 1000)          \* 8.99e9 / 1e10
GRAVITATIONAL_CONSTANT == Rat(6674, 10000)  \* 6.674e-11 / 1e-10
MIN_DISTANCE == Rat(1, 10)
METERS_PER_SCENE_UNIT == Rat(1, 10)

sceneToMeters(pos) == VScale(METERS_PER_SCENE_UNIT, pos)
metersToScene(pos) == VDivR(pos, METERS_PER_SCENE_UNIT)

(***************************************************************************)
(* physics/field.ts: the field kernel                                      *)
(***************************************************************************)
distance(p1, p2) == VNorm(VSub(p2, p1))

unitVector(from, to) ==
  LET r == RMax(distance(from, to), MIN_DISTANCE)
  IN  VDivR(VSub(to, from), r)

\* ElectricContribution with the direction taken from the point to the source
ElectricContributionReversed(pointMeters, source) ==
  LET sourceMeters == sceneToMeters(source.position)
      rMeters == RMax(distance(pointMeters, sourceMeters),
                      RMul(MIN_DISTANCE, METERS_PER_SCENE_UNIT))
      rSquaredMeters == RMul(rMeters, rMeters)
      magnitude == RDiv(RMul(COULOMB_CONSTANT, source.value), rSquaredMeters)
  IN  VScale(magnitude, unitVector(pointMeters, sourceMeters))

\* ElectricContribution with the distance floor converted to metres twice
ElectricContributionLowFloor(pointMeters, source) ==
  LET sourceMeters == sceneToMeters(source.position)
      rMeters == RMax(distance(pointMeters, sourceMeters),
                      RMul(RMul(MIN_DISTANCE, METERS_PER_SCENE_UNIT),
                           METERS_PER_SCENE_UNIT))
      rSquaredMeters == RMul(rMeters, rMeters)
      magnitude == RDiv(RMul(COULOMB_CONSTANT, source.value), rSquaredMeters)
  IN  VScale(magnitude, unitVector(sourceMeters, pointMeters))

\* the body of the loop of computeElectricFieldAtPoint for one source
ElectricContribution(pointMeters, source) ==
  LET sourceMeters == sceneToMeters(source.position)
      rMeters == RMax(distance(pointMeters, sourceMeters),
                      RMul(MIN_DISTANCE, METERS_PER_SCENE_UNIT))
      rSquaredMeters == RMul(rMeters, rMeters)
      magnitude == RDiv(RMul(COULOMB_CONSTANT, source.value), rSquaredMeters)
  IN  VScale(magnitude, unitVector(sourceMeters, pointMeters))

\* the body of the loop of computeGravitationalFieldAtPoint for one source
GravitationalContribution(pointMeters, source) ==
  LET sourceMeters == sceneToMeters(source.position)
      rMeters == RMax(distance(pointMeters, sourceMeters),
                      RMul(MIN_DISTANCE, METERS_PER_SCENE_UNIT))
      rSquaredMeters == RMul(rMeters, rMeters)
      magnitude == RDiv(RMul(GRAVITATIONAL_CONSTANT, source.value), rSquaredMeters)
  IN  VScale(magnitude, unitVector(pointMeters, sourceMeters))

\* ElectricLoop with "=" for "+=": the last source overwrites the total
RECURSIVE ElectricLoopOverwrite(_, _, _, _)
ElectricLoopOverwrite(pointMeters, sources, i, E) ==
  IF i > Len(sources) THEN E
  ELSE ElectricLoopOverwrite(pointMeters, sources, i + 1,
                             ElectricContribution(pointMeters, sources[i]))

RECURSIVE ElectricLoop(_, _, _, _)
ElectricLoop(pointMeters, sources, i, E) ==
  IF i > Len(sources) THEN E
  ELSE ElectricLoop(pointMeters, sources, i + 1,
                    VAdd(E, ElectricContribution(pointMeters, sources[i])))

computeElectricFieldAtPoint(point, sources) ==
  ElectricLoop(sceneToMeters(point), sources, 1, ZeroVec)

RECURSIVE GravitationalLoop(_, _, _, _)
GravitationalLoop(pointMeters, sources, i, G) ==
  IF i > Len(sources) THEN G
  ELSE GravitationalLoop(pointMeters, sources, i + 1,
                         VAdd(G, GravitationalContribution(pointMeters, sources[i])))

computeGravitationalFieldAtPoint(point, sources) ==
  GravitationalLoop(sceneToMeters(point), sources, 1, ZeroVec)

\* the mode switch written out at every caller of the kernel
fieldAt(point, sources, mode) ==
  IF mode = "electric" THEN computeElectricFieldAtPoint(point, sources)
  ELSE computeGravitationalFieldAtPoint(point, sources)

(***************************************************************************)
(* physics/field.ts: findEquilibriumPoint                                  *)
(***************************************************************************)
MAX_ITERATIONS == 10
\* TOLERANCE = 1e-15 and the second cut 1e-20, as decimal exponents
TOLERANCE_EXP10 == 15
TINY_EXP10 == 20
\* stepSize = fieldMag * 1e-6
STEP_FACTOR_EXP10 == 6

\* the guard that checks only the number of sources
UnsupportedCountOnly(sources, mode) == Len(sources) # 2

\* line 163: sources.length !== 2 || mode !== 'electric'
Unsupported(sources, mode) == Len(sources) # 2 \/ mode # "electric"

\* the distance guard left out
TooCloseNever(d) == FALSE

\* line 177: d < MIN_DISTANCE * METERS_PER_SCENE_UNIT
TooClose(d) == RLt(d, RMul(MIN_DISTANCE, METERS_PER_SCENE_UNIT))

\* lines 198-210: like charges, the estimate between the sources
LikeEstimate(p1Meters, p2Meters, u, q1Mag, q2Mag, d) ==
  LET sqrtQ1 == SurdSqrt(q1Mag)
      sqrtQ2 == SurdSqrt(q2Mag)
      denominator == SurdAdd(sqrtQ1, sqrtQ2)
  IN  IF denominator.c = Zero THEN NULL
      ELSE LET r1 == RMul(SurdOver(sqrtQ1, denominator), d)
           IN  VAdd(p1Meters, VScale(r1, u))

\* the guard "denominator < 0" for "denominator <= 0"
OppositeEstimateStrictGuard(p1Meters, p2Meters, u, q1Mag, q2Mag, d) ==
  LET weakerIsQ1 == RLt(q1Mag, q2Mag)
      weakMag == IF weakerIsQ1 THEN q1Mag ELSE q2Mag
      strongMag == IF weakerIsQ1 THEN q2Mag ELSE q1Mag
      sqrtWeak == SurdSqrt(weakMag)
      sqrtStrong == SurdSqrt(strongMag)
      denominator == SurdSub(sqrtStrong, sqrtWeak)
  IN  IF RSign(denominator.c) < 0 THEN NULL
      ELSE IF denominator.c = Zero THEN p1Meters
      ELSE LET x == SurdOver(SurdTimes(sqrtWeak, d), denominator)
           IN  IF weakerIsQ1 THEN VSub(p1Meters, VScale(x, u))
               ELSE VAdd(p2Meters, VScale(x, u))

\* lines 216-252: opposite charges, the estimate outside the pair
OppositeEstimate(p1Meters, p2Meters, u, q1Mag, q2Mag, d) ==
  LET weakerIsQ1 == RLt(q1Mag, q2Mag)
      weakMag == IF weakerIsQ1 THEN q1Mag ELSE q2Mag
      strongMag == IF weakerIsQ1 THEN q2Mag ELSE q1Mag
      sqrtWeak == SurdSqrt(weakMag)
      sqrtStrong == SurdSqrt(strongMag)
      denominator == SurdSub(sqrtStrong, sqrtWeak)
  IN  IF RSign(denominator.c) <= 0 THEN NULL
      ELSE LET x == SurdOver(SurdTimes(sqrtWeak, d), denominator)
           IN  IF weakerIsQ1 THEN VSub(p1Meters, VScale(x, u))
               ELSE VAdd(p2Meters, VScale(x, u))

\* lines 167-253: eqMeters for two sources, or NULL where the code returns null
ClosedForm(sources) ==
  LET q1 == sources[1]
      q2 == sources[2]
      p1Meters == sceneToMeters(q1.position)
      p2Meters == sceneToMeters(q2.position)
      d == distance(p1Meters, p2Meters)
  IN  IF TooClose(d) THEN NULL
      ELSE LET q1Mag == RAbs(q1.value)
               q2Mag == RAbs(q2.value)
               areLikeCharges == RSign(q1.value) * RSign(q2.value) > 0
               u == unitVector(p1Meters, p2Meters)
           IN  IF areLikeCharges
               THEN LikeEstimate(p1Meters, p2Meters, u, q1Mag, q2Mag, d)
               ELSE OppositeEstimate(p1Meters, p2Meters, u, q1Mag, q2Mag, d)

\* lines 270-271: the field magnitude at an estimate
EstimateFieldMag(est, sources) == VNorm(computeElectricFieldAtPoint(est, sources))

\* the loop left as soon as the field magnitude is below 1e6
FieldBelowToleranceLoose(fieldMag) ==
  BelowPow10(fieldMag, FieldExp10("electric"), -6)

\* lines 274 and 283: the two tests that leave the loop
FieldBelowTolerance(fieldMag) ==
  \/ BelowPow10(fieldMag, FieldExp10("electric"), TOLERANCE_EXP10)
  \/ BelowPow10(fieldMag, FieldExp10("electric"), TINY_EXP10)

\* lines 285-304: the estimate after one correction step
RefinedEstimate(est, sources) ==
  LET field == computeElectricFieldAtPoint(est, sources)
      fieldMag == VNorm(field)
      stepSize == RScale10(fieldMag, FieldExp10("electric") - STEP_FACTOR_EXP10)
      stepDirection == VDivR(VScale(Int2R(-1), field), fieldMag)
      stepScene == VDivR(VScale(stepSize, stepDirection), METERS_PER_SCENE_UNIT)
  IN  VAdd(est, stepScene)

(***************************************************************************)
(* components/FieldFlow.tsx: the field-line tracer                         *)
(***************************************************************************)
MAX_STEPS_PER_DIRECTION == 600
STEP_SIZE == Rat(1, 20)
\* MIN_FIELD_MAGNITUDE = 1e-15 and the cut 1e-10 of normalize, as exponents
MIN_FIELD_MAGNITUDE_EXP10 == 15
NORMALIZE_CUT_EXP10 == 10
MIN_DISTANCE_FROM_SOURCE == Rat(3, 20)
TRACE_BOUNDS == Int2R(20)

\* normalize, applied to a field of the given mode
normalize(v, mode) ==
  LET mag == VNorm(v)
  IN  IF BelowPow10(mag, FieldExp10(mode), NORMALIZE_CUT_EXP10) THEN ZeroVec
      ELSE VDivR(v, mag)

isOutsideBounds(pos) ==
  \/ RLt(TRACE_BOUNDS, RAbs(pos[1]))
  \/ RLt(TRACE_BOUNDS, RAbs(pos[2]))
  \/ RLt(TRACE_BOUNDS, RAbs(pos[3]))

isTooCloseToSource(pos, sources) ==
  \E i \in 1..Len(sources) :
    RLt(distance(pos, sources[i].position), MIN_DISTANCE_FROM_SOURCE)

\* the loop test of traceInDirection, with the bound met one iteration late
LoopContinuesInclusive(i) == i <= MAX_STEPS_PER_DIRECTION

\* line 140: the loop test of traceInDirection
LoopContinues(i) == i < MAX_STEPS_PER_DIRECTION

\* lines 142-149: the two tests made before the field is evaluated
StopsBeforeField(pos, sources) ==
  isOutsideBounds(pos) \/ isTooCloseToSource(pos, sources)

\* lines 159-164: the field is too weak to store the point
FieldTooWeak(field, mode) ==
  BelowPow10(VNorm(field), FieldExp10(mode), MIN_FIELD_MAGNITUDE_EXP10)

\* lines 175-179: the position after one step; direction is 1 or -1
SteppedPosition(pos, dir, direction) ==
  VAdd(pos, VScale(RMul(STEP_SIZE, Int2R(direction)), dir))

\* Array.prototype.reverse
Reverse(s) == [i \in 1..Len(s) |-> s[Len(s) + 1 - i]]

\* the line assembled without reversing the backward trace
FullLineUnreversed(pointsBackward, seed, pointsForward) ==
  pointsBackward \o <<seed>> \o pointsForward

\* lines 206-210: the line assembled from the two traces and the seed
FullLine(pointsBackward, seed, pointsForward) ==
  Reverse(pointsBackward) \o <<seed>> \o pointsForward

(***************************************************************************)
(* components/FieldVectors.tsx: the vector sampler                         *)
(***************************************************************************)
\* GRID_STEP.x = GRID_STEP.y = GRID_STEP.z = 2.0
GRID_STEP == Int2R(2)
MAX_ARROWS == 500
\* MIN_FIELD_THRESHOLD = 1e-10, as a decimal exponent
MIN_FIELD_THRESHOLD_EXP10 == 10
\* MIN_DISTANCE_FROM_SOURCE = 0.8 of FieldVectors.tsx
VECTORS_MIN_DISTANCE_FROM_SOURCE == Rat(4, 5)
\* the initial value of minMagnitude
INFINITY == "Infinity"

\* a * 10^e > 10^(-k) for a >= 0 (see BelowPow10)
AbovePow10(a, e, k) ==
  LET j == k + e
  IN  IF j >= 10 THEN a[1] > 0
      ELSE IF j >= 0 THEN a[1] > a[2] \div Pow10(j)
      ELSE IF -j >= 10 THEN FALSE
      ELSE a[1] >= 1 /\ (a[1] - 1) \div Pow10(-j) >= a[2]

\* Math.ceil(a / b) for naturals a and b > 0
CeilDiv(a, b) == (a + b - 1) \div b

\* the values one loop variable of generateGridPoints takes, from x on
RECURSIVE AxisFrom(_, _)
AxisFrom(x, gridSize) ==
  IF RLe(x, gridSize) THEN <<x>> \o AxisFrom(RAdd(x, GRID_STEP), gridSize)
  ELSE <<>>

\* lines 36-42: the points pushed by the three nested loops, x outermost
Lattice(gridSize) ==
  LET axis == AxisFrom(RNeg(gridSize), gridSize)
      n == Len(axis)
  IN  [i \in 1..(n * n * n) |->
         << axis[((i - 1) \div (n * n)) + 1],
            axis[(((i - 1) \div n) % n) + 1],
            axis[((i - 1) % n) + 1] >>]

\* the skip factor rounded down
skipFactorFloor(count) == count \div MAX_ARROWS

\* line 46: skipFactor = Math.ceil(points.length / MAX_ARROWS)
skipFactor(count) == CeilDiv(count, MAX_ARROWS)

\* line 47: points.filter((_, index) => index % skipFactor === 0): the test
\* made on every zero-based index from lo up to hi - 1, the points kept in
\* index order (the range is split in halves to bound the recursion depth)
RECURSIVE FilterByIndex(_, _, _, _)
FilterByIndex(points, lo, hi, skip) ==
  IF hi <= lo THEN <<>>
  ELSE IF hi = lo + 1
    THEN IF lo % skip = 0 THEN <<points[lo + 1]>> ELSE <<>>
  ELSE LET mid == (lo + hi) \div 2
       IN  FilterByIndex(points, lo, mid, skip) \o FilterByIndex(points, mid, hi, skip)

generateGridPoints(gridSize) ==
  LET points == Lattice(gridSize)
  IN  IF Len(points) > MAX_ARROWS
        THEN FilterByIndex(points, 0, Len(points), skipFactor(Len(points)))
      ELSE points

\* the sampler that skips no point
SamplerTooCloseNever(point, sources) == FALSE

\* lines 289-298: the point is within MIN_DISTANCE_FROM_SOURCE of a source
SamplerTooClose(point, sources) ==
  \E i \in 1..Len(sources) :
    RLt(distance(point, sources[i].position), VECTORS_MIN_DISTANCE_FROM_SOURCE)

\* lines 313-315
TrackedMax(maxMagnitude, magnitude) ==
  IF RLt(maxMagnitude, magnitude) THEN magnitude ELSE maxMagnitude

\* lines 316-318
TrackedMin(minMagnitude, magnitude, mode) ==
  IF /\ (minMagnitude = INFINITY \/ RLt(magnitude, minMagnitude))
     /\ AbovePow10(magnitude, FieldExp10(mode), MIN_FIELD_THRESHOLD_EXP10)
    THEN magnitude
  ELSE minMagnitude

\* line 327: minMagnitude === Infinity ? maxMagnitude : minMagnitude
ReturnedMin(minMagnitude, maxMagnitude) ==
  IF minMagnitude = INFINITY THEN maxMagnitude ELSE minMagnitude

\* Math.log10 of a power of ten carried in the unit of the mode
RECURSIVE Log10Scaled(_)
Log10Scaled(a) ==
  IF a = One THEN 0
  ELSE IF RLt(a, One) THEN Log10Scaled(RScale10(a, 1)) - 1
  ELSE Log10Scaled(RScale10(a, -1)) + 1

Log10(a, mode) == Log10Scaled(a) + FieldExp10(mode)

\* the strength with the share of the range not clamped to [0, 1]
Clamp01Open(x) == x

\* line 352: Math.max(0, Math.min(1, x))
Clamp01(x) == RMax(Zero, IF RLt(One, x) THEN One ELSE x)

\* lines 342-356: normalizedStrength of a sample.  log10 is increasing, so
\* logMax > logMin is decided on the arguments; the logarithms themselves
\* are taken only where the strength is interpolated.
normalizedStrength(magnitude, maxMagnitude, minMagnitude, mode) ==
  IF ~(RLt(Zero, maxMagnitude) /\ RLt(Zero, magnitude)) THEN Zero
  ELSE LET e == FieldExp10(mode)
           \* fieldData.minMagnitude || fieldData.maxMagnitude * 1e-6
           fallback == IF minMagnitude = Zero THEN RScale10(maxMagnitude, -6)
                       ELSE minMagnitude
           \* Math.max(fallback, MIN_FIELD_THRESHOLD) is the threshold
           floored == BelowPow10(fallback, e, MIN_FIELD_THRESHOLD_EXP10)
           logMin == IF floored THEN -MIN_FIELD_THRESHOLD_EXP10
                     ELSE Log10(fallback, mode)
           logMaxAbove ==
             IF floored THEN AbovePow10(maxMagnitude, e, MIN_FIELD_THRESHOLD_EXP10)
             ELSE RLt(fallback, maxMagnitude)
       IN  IF logMaxAbove
             THEN Clamp01(Rat(Log10(magnitude, mode) - logMin,
                              Log10(maxMagnitude, mode) - logMin))
           ELSE IF RLe(maxMagnitude, magnitude) THEN One
           ELSE Rat(1, 2)

\* line 192 (FieldArrow): the arrow of this magnitude is drawn
Rendered(magnitude, mode) ==
  ~BelowPow10(magnitude, FieldExp10(mode), MIN_FIELD_THRESHOLD_EXP10)

\* lines 100-110: the contribution of one source in findDominantSource
Contribution(point, source) ==
  LET r == RMax(distance(point, source.position), Rat(1, 10))
  IN  RDiv(RAbs(source.value), RMul(r, r))

\* the update of the dominant source on "greater or equal"
TakesOverOnTie(contribution, maxContribution) ==
  RLe(maxContribution, contribution)

\* line 112: contribution > maxContribution
TakesOver(contribution, maxContribution) ==
  RLt(maxContribution, contribution)

(***************************************************************************)
(* State                                                                   *)
(***************************************************************************)
VARIABLES
  kPoint,   \* kernel query: the point (scene units)
  kMode,    \* kernel query: the mode
  kA,       \* kernel query: a source list
  kB,       \* kernel query: a second source list
  kOutA,    \* result of the kernel for kA, NONE before the call
  kOutB,    \* result of the kernel for kB
  kOutAB,   \* result of the kernel for kA \o kB
  eSources, \* findEquilibriumPoint: argument sources
  eMode,    \* findEquilibriumPoint: argument mode
  ePc,      \* findEquilibriumPoint: position in the function
  eClosed,  \* eqMeters, the closed-form estimate (metres), NONE before it
  eEst,     \* equilibriumScene, the current estimate (scene units)
  eIter,    \* iter, the counter of the refinement loop
  eEvals,   \* number of kernel evaluations made by the call
  eTrail,   \* the values equilibriumScene has taken, in order
  eResult,  \* the value returned: NONE before the return, NULL or a position
  tSeed,    \* traceFieldLine: argument seed (scene units)
  tSources, \* traceFieldLine: argument sources
  tMode,    \* traceFieldLine: argument mode
  tPc,      \* traceFieldLine: position in the function
  tPos,     \* traceInDirection: pos
  tI,       \* traceInDirection: the loop counter i
  tIters,   \* traceInDirection: loop iterations begun by the current call
  tPoints,  \* traceInDirection: points
  tForward, \* pointsForward, NONE before the forward trace returns
  tBackward, \* pointsBackward (before the reversal), NONE before it returns
  tLine,    \* the line returned, NONE before the return
  gGridSize, \* FieldVectors: prop gridSize
  gSources, \* FieldVectors: sources of the store
  gMode,    \* FieldVectors: mode of the store
  gPc,      \* FieldVectors: position in the memo and the render
  gPoints,  \* gridPoints, NONE before generateGridPoints returns
  gIdx,     \* number of grid points the first pass has visited
  gArrowData, \* arrowDataArray, then fieldData.arrowData
  gMax,     \* maxMagnitude
  gMin,     \* minMagnitude, INFINITY before a magnitude is tracked
  gStrengths, \* normalizedStrength of each arrow, NONE before the render
  nMags,    \* magnitude tracking: the magnitudes of the samples, in order
  nMode,    \* magnitude tracking: the mode (the unit of the magnitudes)
  nPc,      \* magnitude tracking: position in the two passes
  nIdx,     \* magnitude tracking: samples the first pass has visited
  nMax,     \* maxMagnitude
  nMin,     \* minMagnitude
  nStrengths, \* normalizedStrength of the samples visited by the render
  fSources, \* FieldFlow: sources of the store
  fMode,    \* FieldFlow: mode of the store
  fDensity, \* FieldFlow: prop density
  fPc,      \* FieldFlow: position in the memo
  fSeeds,   \* seeds, NONE before generateSphereShellSeeds returns
  fIdx,     \* number of seeds the loop has taken
  fLines,   \* lines: the seed and the points of each line kept
  qPoint,   \* computeForceOnTestCharge: argument point
  qTestValue, \* computeForceOnTestCharge: argument testValue
  qMode,    \* computeForceOnTestCharge: argument mode
  qSources, \* computeForceOnTestCharge: argument sources
  qForce,   \* the vector returned, NONE before the call
  dPoint,   \* findDominantSource: argument point
  dSources, \* findDominantSource: argument sources
  dPc,      \* findDominantSource: position in the function
  dI,       \* the loop counter i
  dMax,     \* maxContribution
  dIndex,   \* dominantIndex
  dResult,  \* the value returned, NONE before the return
  sMode,    \* store: mode
  sSources, \* store: sources
  sTestCharge, \* store: testCharge, Null or Some(the test charge)
  sNow,     \* the value Date.now() returned last
  sOps,     \* number of store operations and clicks so far
  sRef,     \* the array sources: the number of the operation that made it
  uSelected, \* Scene: selectedSourceId, Null or Some(the id)
  uVisualization, \* App: fieldVisualizationMode
  uGridSize, \* App: gridSize
  uDensity, \* App: fieldFlowDensity
  uPhase,   \* FieldLine: the step of the pulse the last frame has drawn
  mVectors, \* FieldVectors: the memo fieldData, Null while not mounted
  mFlow     \* FieldFlow: the memo fieldLines, Null while not mounted

kVars == <<kPoint, kMode, kA, kB, kOutA, kOutB, kOutAB>>
eVars == <<eSources, eMode, ePc, eClosed, eEst, eIter, eEvals, eTrail, eResult>>
tVars == <<tSeed, tSources, tMode, tPc, tPos, tI, tIters, tPoints, tForward,
           tBackward, tLine>>
gVars == <<gGridSize, gSources, gMode, gPc, gPoints, gIdx, gArrowData, gMax,
           gMin, gStrengths>>
nVars == <<nMags, nMode, nPc, nIdx, nMax, nMin, nStrengths>>
fVars == <<fSources, fMode, fDensity, fPc, fSeeds, fIdx, fLines>>
qVars == <<qPoint, qTestValue, qMode, qSources, qForce>>
dVars == <<dPoint, dSources, dPc, dI, dMax, dIndex, dResult>>
sVars == <<sMode, sSources, sTestCharge, sNow, sOps, sRef>>
uVars == <<uSelected>>
mVars == <<uVisualization, uGridSize, uDensity, uPhase, mVectors, mFlow>>
\* the store and the state of the components around it
appVars == <<sVars, uVars, mVars>>
\* the state of the components that draw the field
viewVars == <<gVars, nVars, fVars, qVars, dVars, appVars>>
vars == <<kVars, eVars, tVars, viewVars>>


\* a FieldSource (physics/types.ts); kind is the constant "source"
Source(id, x, y, z, value) ==
  [id |-> id, position |-> <<x, y, z>>, value |-> value, kind |-> "source"]

\* no call of findEquilibriumPoint is modelled
EqIdle ==
  /\ eSources = <<>> /\ eMode = "electric" /\ ePc = "idle"
  /\ eClosed = NONE /\ eEst = NONE /\ eIter = 0 /\ eEvals = 0 /\ eResult = NONE
  /\ eTrail = <<>>

\* no kernel query is modelled
KernelIdle ==
  /\ kPoint = ZeroVec /\ kMode = "electric" /\ kA = <<>> /\ kB = <<>>
  /\ kOutA = NONE /\ kOutB = NONE /\ kOutAB = NONE

\* no call of traceFieldLine is modelled
TraceIdle ==
  /\ tSeed = ZeroVec /\ tSources = <<>> /\ tMode = "electric" /\ tPc = "idle"
  /\ tPos = ZeroVec /\ tI = 0 /\ tIters = 0 /\ tPoints = <<>>
  /\ tForward = NONE /\ tBackward = NONE /\ tLine = NONE

\* the vector sampler FieldVectors is not modelled
SamplerIdle ==
  /\ gGridSize = Zero /\ gSources = <<>> /\ gMode = "electric" /\ gPc = "idle"
  /\ gPoints = NONE /\ gIdx = 0 /\ gArrowData = <<>> /\ gMax = Zero
  /\ gMin = Zero /\ gStrengths = NONE

\* no magnitude tracking is modelled
StrengthIdle ==
  /\ nMags = <<>> /\ nMode = "electric" /\ nPc = "idle" /\ nIdx = 0
  /\ nMax = Zero /\ nMin = Zero /\ nStrengths = <<>>

\* the line component FieldFlow is not modelled
FlowIdle ==
  /\ fSources = <<>> /\ fMode = "electric" /\ fDensity = 0 /\ fPc = "idle"
  /\ fSeeds = NONE /\ fIdx = 0 /\ fLines = <<>>

\* no call of computeForceOnTestCharge is modelled
ForceIdle ==
  /\ qPoint = ZeroVec /\ qTestValue = Zero /\ qMode = "electric"
  /\ qSources = <<>> /\ qForce = NONE

\* no call of findDominantSource is modelled
DominantIdle ==
  /\ dPoint = ZeroVec /\ dSources = <<>> /\ dPc = "idle" /\ dI = 0
  /\ dMax = Zero /\ dIndex = 0 /\ dResult = NONE

\* null and a non-null value of a nullable field
Null == <<>>
Some(x) == <<x>>

\* components/FieldVectors.tsx line 328: the dependencies of the memo
\* fieldData without the mode
VectorDepsWithoutMode(mode, sourcesRef, enabled, gridSize) ==
  <<sourcesRef, enabled, gridSize>>

\* components/FieldVectors.tsx line 328: the dependencies of the memo
\* fieldData; sourcesRef is the array, not its content
VectorDeps(mode, sourcesRef, enabled, gridSize) ==
  <<mode, sourcesRef, enabled, gridSize>>

\* components/FieldFlow.tsx line 350: the dependencies of the memo fieldLines
FlowDeps(enabled, sourcesRef, mode, density) ==
  <<enabled, sourcesRef, mode, density>>

\* components/FieldVectors.tsx lines 267-327: the value of the memo.  The
\* arrows sampled are named by the arguments the sampling reads, so that
\* arrows sampled from different arguments differ
fieldData(sources, mode, enabled, gridSize) ==
  IF ~enabled \/ Len(sources) = 0
    THEN [arrowData |-> <<>>, maxMagnitude |-> Zero, minMagnitude |-> Zero]
    ELSE [sampled |-> <<gridSize, sources, mode>>]

\* components/FieldFlow.tsx lines 327-349: the value of the memo.  The lines
\* traced are named by the arguments the seeding and the tracing read
fieldLines(sources, mode, enabled, density) ==
  IF ~enabled \/ Len(sources) = 0 THEN <<>>
  ELSE <<[traced |-> <<density, sources, mode>>]>>

\* React's useMemo: the value kept is used again if every dependency is the
\* one of the last render (Object.is), else the body runs again; runs counts
\* the runs of the body since the component was mounted
useMemo(kept, deps, value) ==
  IF kept # Null /\ kept[1].deps = deps THEN kept
  ELSE Some([deps |-> deps, value |-> value,
             runs |-> IF kept = Null THEN 1 ELSE kept[1].runs + 1])

\* components/ScenePanel.tsx lines 86-98: FieldVectors is mounted in the
\* visualization 'vector', FieldFlow in 'streamline', both with enabled true
\* and with the state of the store and of App given; vectors and flow are
\* the memos of the render before
VectorsRendered(vectors, visualization, mode, sources, sourcesRef, gridSize) ==
  IF visualization = "vector"
    THEN useMemo(vectors, VectorDeps(mode, sourcesRef, TRUE, gridSize),
                 fieldData(sources, mode, TRUE, gridSize))
    ELSE Null

FlowRendered(flow, visualization, mode, sources, sourcesRef, density) ==
  IF visualization = "streamline"
    THEN useMemo(flow, FlowDeps(TRUE, sourcesRef, mode, density),
                 fieldLines(sources, mode, TRUE, density))
    ELSE Null

\* App.tsx lines 9, 14, 15: the state of App as created, before any frame
AppDefaults ==
  /\ uVisualization = "vector" /\ uGridSize = Int2R(8) /\ uDensity = 100
  /\ uPhase = 0

\* the first render, of the store as it is
FirstRender ==
  /\ mVectors = VectorsRendered(Null, uVisualization, sMode, sSources, sRef,
                                uGridSize)
  /\ mFlow = FlowRendered(Null, uVisualization, sMode, sSources, sRef,
                          uDensity)

\* state/store.ts lines 30-32: the store as created; nothing is selected
AppIdle ==
  /\ sMode = "electric" /\ sSources = <<>> /\ sTestCharge = Null /\ sNow = 0
  /\ sOps = 0 /\ sRef = 0
  /\ uSelected = Null
  /\ AppDefaults
  /\ FirstRender

\* none of the components that draw the field is modelled
DrawingIdle ==
  SamplerIdle /\ StrengthIdle /\ FlowIdle /\ ForceIdle /\ DominantIdle

ViewIdle == DrawingIdle /\ AppIdle

(***************************************************************************)
(* Kernel queries: computeElectricFieldAtPoint and                         *)
(* computeGravitationalFieldAtPoint applied to bounded inputs              *)
(***************************************************************************)
MaxLenA == 2
MaxLenB == 1

\* two coincident sources of opposite sign and one source elsewhere
KernelPool ==
  { Source(1, Zero, Zero, Zero, Int2R(2)),
    Source(2, Zero, Zero, Zero, Int2R(-3)),
    Source(3, One, Zero, Zero, Rat(1, 2)) }

\* query points: on a source, inside the distance clamp (below 0.1), between
\* 0.1 and 1.0 scene units of a source, farther away, on and off the axis
KernelPoints ==
  { <<Zero, Zero, Zero>>, <<Rat(1, 20), Zero, Zero>>, <<Rat(1, 10), Zero, Zero>>,
    <<Rat(1, 2), Zero, Zero>>, <<One, Zero, Zero>>, <<Int2R(2), Zero, Zero>>,
    <<Int2R(-1), Zero, Zero>>, <<Rat(21, 20), Zero, Zero>>,
    <<Zero, Rat(3, 10), Rat(4, 10)>>, <<Zero, Int2R(3), Int2R(-4)>>,
    <<One, Rat(3, 10), Rat(4, 10)>>, <<Int2R(2), Int2R(-2), One>> }

SourceLists(pool, maxLen) ==
  UNION { [1..n -> pool] : n \in 0..maxLen }

\* every distance the kernel takes for this query is a rational
ExactQuery(point, sources) ==
  \A i \in 1..Len(sources) :
    LET dv == VSub(point, sources[i].position)
    IN  HasExactNorm(dv[1], dv[2], dv[3])

KernelInit ==
  /\ kPoint \in KernelPoints
  /\ kMode \in Modes
  /\ kA \in SourceLists(KernelPool, MaxLenA)
  /\ kB \in SourceLists(KernelPool, MaxLenB)
  /\ ExactQuery(kPoint, kA \o kB)
  /\ kOutA = NONE
  /\ kOutB = NONE
  /\ kOutAB = NONE
  /\ EqIdle
  /\ TraceIdle
  /\ ViewIdle

EvalA ==
  /\ kOutA = NONE
  /\ kOutA' = fieldAt(kPoint, kA, kMode)
  /\ UNCHANGED <<kPoint, kMode, kA, kB, kOutB, kOutAB>>
  /\ UNCHANGED <<eVars, tVars, viewVars>>

EvalB ==
  /\ kOutB = NONE
  /\ kOutB' = fieldAt(kPoint, kB, kMode)
  /\ UNCHANGED <<kPoint, kMode, kA, kB, kOutA, kOutAB>>
  /\ UNCHANGED <<eVars, tVars, viewVars>>

EvalAB ==
  /\ kOutAB = NONE
  /\ kOutAB' = fieldAt(kPoint, kA \o kB, kMode)
  /\ UNCHANGED <<kPoint, kMode, kA, kB, kOutA, kOutB>>
  /\ UNCHANGED <<eVars, tVars, viewVars>>

KernelNext == EvalA \/ EvalB \/ EvalAB

SpecKernel == KernelInit /\ [][KernelNext]_vars

(***************************************************************************)
(* One call of findEquilibriumPoint, step by step                          *)
(***************************************************************************)
\* line 163-165
EqCheckArgs ==
  /\ ePc = "call"
  /\ IF Unsupported(eSources, eMode)
     THEN ePc' = "done" /\ eResult' = NULL
     ELSE ePc' = "solve" /\ eResult' = eResult
  /\ UNCHANGED <<eSources, eMode, eClosed, eEst, eIter, eEvals, eTrail>>
  /\ UNCHANGED <<kVars, tVars, viewVars>>

\* lines 167-260
EqClosedForm ==
  /\ ePc = "solve"
  /\ LET eqMeters == ClosedForm(eSources)
     IN  IF eqMeters = NULL
         THEN /\ ePc' = "done" /\ eResult' = NULL
              /\ UNCHANGED <<eClosed, eEst, eTrail>>
         ELSE /\ ePc' = "refine"
              /\ eClosed' = eqMeters
              /\ eEst' = VDivR(eqMeters, METERS_PER_SCENE_UNIT)
              /\ eTrail' = <<VDivR(eqMeters, METERS_PER_SCENE_UNIT)>>
              /\ eResult' = eResult
  /\ UNCHANGED <<eSources, eMode, eIter, eEvals>>
  /\ UNCHANGED <<kVars, tVars, viewVars>>

\* lines 268-305: one pass through the body of the refinement loop
EqRefineStep ==
  /\ ePc = "refine"
  /\ eIter < MAX_ITERATIONS
  /\ eEvals' = eEvals + 1
  /\ IF FieldBelowTolerance(EstimateFieldMag(eEst, eSources))
     THEN ePc' = "return" /\ UNCHANGED <<eEst, eIter, eTrail>>
     ELSE /\ eEst' = RefinedEstimate(eEst, eSources)
          /\ eTrail' = Append(eTrail, RefinedEstimate(eEst, eSources))
          /\ eIter' = eIter + 1
          /\ ePc' = ePc
  /\ UNCHANGED <<eSources, eMode, eClosed, eResult>>
  /\ UNCHANGED <<kVars, tVars, viewVars>>

\* line 268, iter = MAX_ITERATIONS: the loop ends
EqLoopExit ==
  /\ ePc = "refine"
  /\ eIter >= MAX_ITERATIONS
  /\ ePc' = "return"
  /\ UNCHANGED <<eSources, eMode, eClosed, eEst, eIter, eEvals, eTrail,
                 eResult>>
  /\ UNCHANGED <<kVars, tVars, viewVars>>

\* line 307
EqReturn ==
  /\ ePc = "return"
  /\ eResult' = eEst
  /\ ePc' = "done"
  /\ UNCHANGED <<eSources, eMode, eClosed, eEst, eIter, eEvals, eTrail>>
  /\ UNCHANGED <<kVars, tVars, viewVars>>

(***************************************************************************)
(* Inputs of findEquilibriumPoint                                          *)
(***************************************************************************)
SourceAt(id, pos, value) ==
  [id |-> id, position |-> pos, value |-> value, kind |-> "source"]

Pair(p1, p2, v1, v2) == <<SourceAt(1, p1, v1), SourceAt(2, p2, v2)>>

\* orientations of a pair: unit vectors along and across the axes
Directions ==
  { <<One, Zero, Zero>>, <<Int2R(-1), Zero, Zero>>, <<Zero, One, Zero>>,
    <<Zero, Zero, Int2R(-1)>>, <<Rat(3, 5), Rat(4, 5), Zero>>,
    <<Zero, Rat(-4, 5), Rat(3, 5)>> }

MaxSeparation == 3
MaxValueRoot == 2

\* separations in scene units: below the floor 0.1, on it, between the floor
\* and 1.0, and from 1.0 up
Separations ==
  {Rat(1, 20), Rat(1, 10), Rat(1, 2)} \cup {Int2R(k) : k \in 1..MaxSeparation}

\* source values: squares and their negatives, zero, and 2 and -8 (multiples
\* of the square root of 2)
PairValues ==
  {Int2R(r * r) : r \in 0..MaxValueRoot} \cup {Int2R(-(r * r)) : r \in 1..MaxValueRoot}
    \cup {Int2R(2), Int2R(-8)}

\* the square roots of the two values can be added and divided exactly
CommensurableValues(v1, v2) ==
  Commensurable(SurdSqrt(RAbs(v1)), SurdSqrt(RAbs(v2)))

ClosedFormPairs ==
  { Pair(p1, VAdd(p1, VScale(d, dir)), v[1], v[2]) :
      p1 \in {ZeroVec, <<One, Int2R(-2), Rat(1, 2)>>},
      d \in Separations, dir \in Directions,
      v \in {w \in PairValues \X PairValues : CommensurableValues(w[1], w[2])} }

\* lists that are not pairs
OtherLists ==
  { <<>>, <<SourceAt(1, ZeroVec, One)>>,
    <<SourceAt(1, ZeroVec, One), SourceAt(2, <<One, Zero, Zero>>, One),
      SourceAt(3, <<Int2R(2), Zero, Zero>>, Int2R(-1))>>,
    <<SourceAt(1, ZeroVec, One), SourceAt(2, <<One, Zero, Zero>>, One),
      SourceAt(3, <<Int2R(2), Zero, Zero>>, Int2R(-1)),
      SourceAt(4, <<Zero, One, Zero>>, Int2R(4))>> }

EqStart ==
  /\ ePc = "call" /\ eClosed = NONE /\ eEst = NONE
  /\ eIter = 0 /\ eEvals = 0 /\ eResult = NONE /\ eTrail = <<>>

(***************************************************************************)
(* SpecClosed: findEquilibriumPoint up to the closed-form estimate         *)
(***************************************************************************)
ClosedInit ==
  /\ eSources \in ClosedFormPairs \cup OtherLists
  /\ eMode \in Modes
  /\ EqStart
  /\ KernelIdle
  /\ TraceIdle
  /\ ViewIdle

ClosedNext == EqCheckArgs \/ EqClosedForm

SpecClosed == ClosedInit /\ [][ClosedNext]_vars

(***************************************************************************)
(* SpecEq: the whole of findEquilibriumPoint, for the inputs whose         *)
(* refinement steps are exactly representable: the estimates where the     *)
(* kernel's field is zero, and the pairs TunedPairs, for which the kernel  *)
(* is linear around the estimate                                           *)
(***************************************************************************)
\* two equal like values at (-d/2,0,0) and (d/2,0,0)
Symmetric(d, q) ==
  Pair(<<RNeg(RDiv(d, Int2R(2))), Zero, Zero>>, <<RDiv(d, Int2R(2)), Zero, Zero>>, q, q)

\* d = 0.1 scene units, the floor itself.  Both sources are then within the
\* kernel's distance clamp of every estimate x between them, where the kernel
\* gives E(x) = 2e6 * k * Q * x (x in metres), so that one refinement step
\* maps x to (1 - 0.2 * k * Q) * x:  Q = 10/k = 1/899000000 maps x to -x,
\* Q = 5/k = 1/1798000000 maps x to 0.
TunedPairs ==
  { Symmetric(Rat(1, 10), Rat(1, 899000000)),
    Symmetric(Rat(1, 10), Rat(1, 1798000000)) }

\* d between the floor and 1.0 scene units, Q such that the first step
\* takes the closed-form estimate -x0 to -X and every later step takes X to
\* -X and back: (d, x0, X) = (2/3, 1/9, 5/9) and (4/7, 6/49, 58/147)
CyclingPairs ==
  { Symmetric(Rat(2, 3), Rat(1, 45511875)),
    Symmetric(Rat(4, 7), Rat(4, 485662275)) }

SolverPairs ==
  { Symmetric(Int2R(d), q) :
      d \in 1..MaxSeparation, q \in {One, Int2R(4), Int2R(2), Int2R(-1)} }
  \cup { Pair(ZeroVec, VScale(Int2R(3 * d), dir), One, Int2R(4)) :
           d \in 1..MaxSeparation, dir \in Directions }
  \cup { Pair(ZeroVec, VScale(Int2R(d), dir), v[1], v[2]) :
           d \in 1..MaxSeparation, dir \in Directions,
           v \in { <<One, Int2R(-4)>>, <<Int2R(-4), One>>, <<Int2R(2), Int2R(-8)>>,
                   <<One, Int2R(-1)>>, <<Int2R(-4), Int2R(4)>> } }
  \cup { Pair(ZeroVec, <<Rat(1, 20), Zero, Zero>>, v[1], v[2]) :
           v \in { <<One, One>>, <<One, Int2R(-4)>>, <<Int2R(-1), Int2R(-1)>> } }
  \cup TunedPairs
  \cup CyclingPairs

EqInit ==
  /\ eSources \in SolverPairs \cup OtherLists
  /\ eMode \in Modes
  /\ EqStart
  /\ KernelIdle
  /\ TraceIdle
  /\ ViewIdle

EqNext == EqCheckArgs \/ EqClosedForm \/ EqRefineStep \/ EqLoopExit \/ EqReturn

SpecEq == EqInit /\ [][EqNext]_vars

(***************************************************************************)
(* One call of traceFieldLine, one loop iteration of traceInDirection per  *)
(* step                                                                    *)
(***************************************************************************)
Tracing == tPc \in {"forward", "backward"}

\* the direction argument of the running traceInDirection
TraceSign == IF tPc = "forward" THEN 1 ELSE -1

\* the position of traceFieldLine after the running traceInDirection
Returned == IF tPc = "forward" THEN "forwardDone" ELSE "backwardDone"

\* lines 195-200: the test of the seed and the call of the forward trace
TraceStart ==
  /\ tPc = "call"
  /\ IF isTooCloseToSource(tSeed, tSources)
       THEN /\ tPc' = "done" /\ tLine' = <<>>
            /\ UNCHANGED <<tPos, tI, tIters, tPoints>>
       ELSE /\ tPc' = "forward" /\ tPos' = tSeed /\ tI' = 0 /\ tIters' = 0
            /\ tPoints' = <<>> /\ UNCHANGED tLine
  /\ UNCHANGED <<tSeed, tSources, tMode, tForward, tBackward>>
  /\ UNCHANGED <<kVars, eVars, viewVars>>

\* lines 140-180: one iteration of the loop of traceInDirection
TraceStep ==
  /\ Tracing
  /\ LoopContinues(tI)
  /\ tIters' = tIters + 1
  /\ LET field == fieldAt(tPos, tSources, tMode)
         dir == normalize(field, tMode)
     IN  IF StopsBeforeField(tPos, tSources) \/ FieldTooWeak(field, tMode)
           THEN tPc' = Returned /\ UNCHANGED <<tPos, tI, tPoints>>
         ELSE IF dir = ZeroVec
           THEN /\ tPoints' = Append(tPoints, tPos)
                /\ tPc' = Returned /\ UNCHANGED <<tPos, tI>>
         ELSE /\ tPoints' = Append(tPoints, tPos)
              /\ tPos' = SteppedPosition(tPos, dir, TraceSign)
              /\ tI' = tI + 1
              /\ UNCHANGED tPc
  /\ UNCHANGED <<tSeed, tSources, tMode, tForward, tBackward, tLine>>
  /\ UNCHANGED <<kVars, eVars, viewVars>>

\* line 140: the loop ends because i reached MAX_STEPS_PER_DIRECTION
TraceLoopExit ==
  /\ Tracing
  /\ ~LoopContinues(tI)
  /\ tPc' = Returned
  /\ UNCHANGED <<tSeed, tSources, tMode, tPos, tI, tIters, tPoints, tForward,
                 tBackward, tLine>>
  /\ UNCHANGED <<kVars, eVars, viewVars>>

\* lines 200-203: the forward trace returns, the backward trace is called
TraceForwardReturn ==
  /\ tPc = "forwardDone"
  /\ tForward' = tPoints
  /\ tPc' = "backward" /\ tPos' = tSeed /\ tI' = 0 /\ tIters' = 0
  /\ tPoints' = <<>>
  /\ UNCHANGED <<tSeed, tSources, tMode, tBackward, tLine>>
  /\ UNCHANGED <<kVars, eVars, viewVars>>

\* lines 203-212: the backward trace returns, the line is assembled
TraceAssemble ==
  /\ tPc = "backwardDone"
  /\ tBackward' = tPoints
  /\ tLine' = FullLine(tPoints, tSeed, tForward)
  /\ tPc' = "done"
  /\ UNCHANGED <<tSeed, tSources, tMode, tPos, tI, tIters, tPoints, tForward>>
  /\ UNCHANGED <<kVars, eVars, viewVars>>

(***************************************************************************)
(* SpecTrace: traceFieldLine on seeds and sources for which every square   *)
(* root is exact: everything on the x axis, or one source at the origin    *)
(***************************************************************************)
MaxSeedDistance == 1

OnAxis(x) == <<x, Zero, Zero>>

\* seeds on three rays from the origin, half a step off the whole distances,
\* so that no position visited lies exactly on a threshold of the tracer
RaySeeds ==
  { VScale(RAdd(Int2R(r), Rat(1, 40)), u) : r \in 1..MaxSeedDistance,
      u \in {<<One, Zero, Zero>>, <<Rat(3, 5), Rat(4, 5), Zero>>,
             <<Zero, Rat(-4, 5), Rat(3, 5)>>} }

TraceCall(seed, sources, mode) ==
  [seed |-> seed, sources |-> sources, mode |-> mode]

\* one source at the origin: lines that run to the bounds or into the source
SingleSourceCalls ==
  { TraceCall(seed, <<SourceAt(1, ZeroVec, c[1])>>, c[2]) :
      seed \in RaySeeds,
      c \in {<<Int2R(2), "electric">>, <<Int2R(-2), "electric">>,
             <<Int2R(2), "gravity">>} }

\* two equal sources at (-1,0,0) and (1,0,0): next to the midpoint the field
\* points to the midpoint (electric) or away from it (gravity) and never
\* vanishes on the positions visited
EqualPairCalls ==
  { TraceCall(OnAxis(Rat(1, 40)),
              Pair(OnAxis(Int2R(-1)), OnAxis(One), One, One),
              mode) : mode \in Modes }

\* no source, a source of value 0, a seed next to a source, a seed outside
\* the bounds, and a field between 1e-15 and 1e-10
EdgeCalls ==
  { TraceCall(OnAxis(One), <<>>, mode) : mode \in Modes }
  \cup { TraceCall(OnAxis(One), <<SourceAt(1, ZeroVec, Zero)>>, "electric"),
         TraceCall(OnAxis(Rat(1, 10)), <<SourceAt(1, ZeroVec, Int2R(2))>>,
                   "electric"),
         TraceCall(OnAxis(Int2R(21)), <<SourceAt(1, ZeroVec, Int2R(2))>>,
                   "electric"),
         TraceCall(OnAxis(Int2R(10)), <<SourceAt(1, ZeroVec, One)>>,
                   "gravity") }

TraceCalls == SingleSourceCalls \cup EqualPairCalls \cup EdgeCalls

TraceInit ==
  /\ \E c \in TraceCalls :
       tSeed = c.seed /\ tSources = c.sources /\ tMode = c.mode
  /\ tPc = "call" /\ tPos = ZeroVec /\ tI = 0 /\ tIters = 0 /\ tPoints = <<>>
  /\ tForward = NONE /\ tBackward = NONE /\ tLine = NONE
  /\ KernelIdle
  /\ EqIdle
  /\ ViewIdle

TraceNext ==
  TraceStart \/ TraceStep \/ TraceLoopExit \/ TraceForwardReturn \/ TraceAssemble

SpecTrace == TraceInit /\ [][TraceNext]_vars

(***************************************************************************)
(* The memo and the render of FieldVectors, step by step                   *)
(***************************************************************************)
\* a memo runs to completion before another one starts
SamplerRunning == gPc \in {"grid", "loop"}
FlowRunning == fPc \in {"seeds", "loop", "trace"}

\* lines 267-274: the guard of the memo (enabled is true at the only place
\* the component is used)
SamplerMemo ==
  /\ gPc = "call"
  /\ ~FlowRunning
  /\ IF Len(gSources) = 0
       THEN /\ gArrowData' = <<>> /\ gMax' = Zero /\ gMin' = Zero
            /\ gPc' = "memoDone"
       ELSE /\ gPc' = "grid"
            /\ UNCHANGED <<gArrowData, gMax, gMin>>
  /\ UNCHANGED <<gGridSize, gSources, gMode, gPoints, gIdx, gStrengths>>
  /\ UNCHANGED <<kVars, eVars, tVars, nVars, fVars, qVars, dVars, appVars>>

\* lines 276-287: the grid is generated, the first pass is set up
GenerateGrid ==
  /\ gPc = "grid"
  /\ gPoints' = generateGridPoints(gGridSize)
  /\ gArrowData' = <<>> /\ gMax' = Zero /\ gMin' = INFINITY /\ gIdx' = 0
  /\ gPc' = "loop"
  /\ UNCHANGED <<gGridSize, gSources, gMode, gStrengths>>
  /\ UNCHANGED <<kVars, eVars, tVars, nVars, fVars, qVars, dVars, appVars>>

\* lines 289-325: one iteration of the first pass
SampleStep ==
  /\ gPc = "loop"
  /\ gIdx < Len(gPoints)
  /\ gIdx' = gIdx + 1
  /\ LET point == gPoints[gIdx + 1]
         field == fieldAt(point, gSources, gMode)
         magnitude == VNorm(field)
     IN  IF SamplerTooClose(point, gSources)
           THEN UNCHANGED <<gArrowData, gMax, gMin>>
         ELSE /\ gMax' = TrackedMax(gMax, magnitude)
              /\ gMin' = TrackedMin(gMin, magnitude, gMode)
              /\ gArrowData' = Append(gArrowData,
                   [position |-> point, field |-> field, magnitude |-> magnitude])
  /\ UNCHANGED <<gGridSize, gSources, gMode, gPc, gPoints, gStrengths>>
  /\ UNCHANGED <<kVars, eVars, tVars, nVars, fVars, qVars, dVars, appVars>>

\* line 327: the memo returns
SamplerReturn ==
  /\ gPc = "loop"
  /\ gIdx = Len(gPoints)
  /\ gMin' = ReturnedMin(gMin, gMax)
  /\ gPc' = "memoDone"
  /\ UNCHANGED <<gGridSize, gSources, gMode, gPoints, gIdx, gArrowData, gMax,
                 gStrengths>>
  /\ UNCHANGED <<kVars, eVars, tVars, nVars, fVars, qVars, dVars, appVars>>

\* lines 330-372: the render; null without sources, else one arrow per sample
SamplerRender ==
  /\ gPc = "memoDone"
  /\ gStrengths' =
       IF Len(gSources) = 0 THEN NULL
       ELSE [i \in 1..Len(gArrowData) |->
               normalizedStrength(gArrowData[i].magnitude, gMax, gMin, gMode)]
  /\ gPc' = "done"
  /\ UNCHANGED <<gGridSize, gSources, gMode, gPoints, gIdx, gArrowData, gMax,
                 gMin>>
  /\ UNCHANGED <<kVars, eVars, tVars, nVars, fVars, qVars, dVars, appVars>>

(***************************************************************************)
(* SpecGrid: generateGridPoints on grid half-extents in steps of 1/8       *)
(***************************************************************************)
MaxGridSize == 9

GridSizes == { Rat(k, 8) : k \in (-8)..(8 * MaxGridSize) }

GridInit ==
  /\ gGridSize \in GridSizes
  /\ gSources = <<SourceAt(1, ZeroVec, One)>> /\ gMode = "electric"
  /\ gPc = "grid" /\ gPoints = NONE /\ gIdx = 0 /\ gArrowData = <<>>
  /\ gMax = Zero /\ gMin = Zero /\ gStrengths = NONE
  /\ StrengthIdle /\ FlowIdle /\ ForceIdle /\ DominantIdle
  /\ KernelIdle /\ EqIdle /\ TraceIdle
  /\ AppIdle

GridNext == GenerateGrid

SpecGrid == GridInit /\ [][GridNext]_vars

(***************************************************************************)
(* SpecStrength: the magnitude tracking of the first pass and the          *)
(* normalizedStrength of the render, on sequences of magnitudes that are   *)
(* zero or powers of ten.  In gravity mode the threshold 1e-10 is the      *)
(* magnitude One of the model.                                             *)
(***************************************************************************)
MaxSamples == 3
MaxMagnitudeExp10 == 2

Magnitudes ==
  {Zero} \cup { RScale10(One, k) : k \in (-MaxMagnitudeExp10)..MaxMagnitudeExp10 }

StrengthInit ==
  /\ nMags \in UNION { [1..n -> Magnitudes] : n \in 0..MaxSamples }
  /\ nMode \in Modes
  /\ nPc = "track" /\ nIdx = 0 /\ nMax = Zero /\ nMin = INFINITY
  /\ nStrengths = <<>>
  /\ SamplerIdle /\ FlowIdle /\ ForceIdle /\ DominantIdle
  /\ KernelIdle /\ EqIdle /\ TraceIdle
  /\ AppIdle

\* lines 313-318 for the next sample
StrengthTrack ==
  /\ nPc = "track"
  /\ nIdx < Len(nMags)
  /\ nIdx' = nIdx + 1
  /\ nMax' = TrackedMax(nMax, nMags[nIdx + 1])
  /\ nMin' = TrackedMin(nMin, nMags[nIdx + 1], nMode)
  /\ UNCHANGED <<nMags, nMode, nPc, nStrengths>>
  /\ UNCHANGED <<kVars, eVars, tVars, gVars, fVars, qVars, dVars, appVars>>

\* line 327
StrengthReturn ==
  /\ nPc = "track"
  /\ nIdx = Len(nMags)
  /\ nMin' = ReturnedMin(nMin, nMax)
  /\ nPc' = "render"
  /\ UNCHANGED <<nMags, nMode, nIdx, nMax, nStrengths>>
  /\ UNCHANGED <<kVars, eVars, tVars, gVars, fVars, qVars, dVars, appVars>>

\* lines 336-356 for the next sample
StrengthRender ==
  /\ nPc = "render"
  /\ Len(nStrengths) < Len(nMags)
  /\ nStrengths' = Append(nStrengths,
       normalizedStrength(nMags[Len(nStrengths) + 1], nMax, nMin, nMode))
  /\ UNCHANGED <<nMags, nMode, nPc, nIdx, nMax, nMin>>
  /\ UNCHANGED <<kVars, eVars, tVars, gVars, fVars, qVars, dVars, appVars>>

StrengthNext == StrengthTrack \/ StrengthReturn \/ StrengthRender

SpecStrength == StrengthInit /\ [][StrengthNext]_vars

(***************************************************************************)
(* SpecDominant: one call of findDominantSource, step by step.  The mode   *)
(* argument is left out: both branches of lines 105-109 are the same       *)
(* expression.                                                             *)
(***************************************************************************)
MaxDominantSources == 3

\* sources on the x axis and on a 3-4-5 ray, with values that tie at the
\* origin (1 at distance 1, 4 and -4 at distance 2) and a value of zero
DominantPool ==
  { SourceAt(1, OnAxis(One), One),
    SourceAt(2, OnAxis(Int2R(2)), Int2R(4)),
    SourceAt(3, OnAxis(Int2R(-2)), Int2R(-4)),
    SourceAt(4, <<Zero, Rat(6, 5), Rat(8, 5)>>, Int2R(3)),
    SourceAt(5, OnAxis(Int2R(-1)), Zero) }

\* the origin, a point within 0.1 of a source, and a point on a source
DominantPoints == { ZeroVec, OnAxis(Rat(21, 20)), OnAxis(Int2R(2)) }

DominantInit ==
  /\ dPoint \in DominantPoints
  /\ dSources \in SourceLists(DominantPool, MaxDominantSources)
  /\ ExactQuery(dPoint, dSources)
  /\ dPc = "call" /\ dI = 0 /\ dMax = Zero /\ dIndex = 0 /\ dResult = NONE
  /\ SamplerIdle /\ StrengthIdle /\ FlowIdle /\ ForceIdle
  /\ KernelIdle /\ EqIdle /\ TraceIdle
  /\ AppIdle

\* lines 94-97: null for no sources, else the loop is set up
DominantCall ==
  /\ dPc = "call"
  /\ IF Len(dSources) = 0
       THEN dResult' = NULL /\ dPc' = "done" /\ UNCHANGED <<dMax, dIndex, dI>>
       ELSE /\ dMax' = Zero /\ dIndex' = 0 /\ dI' = 0 /\ dPc' = "loop"
            /\ UNCHANGED dResult
  /\ UNCHANGED <<dPoint, dSources>>
  /\ UNCHANGED <<kVars, eVars, tVars, gVars, nVars, fVars, qVars, appVars>>

\* lines 99-116: one iteration of the loop
DominantStep ==
  /\ dPc = "loop"
  /\ dI < Len(dSources)
  /\ LET contribution == Contribution(dPoint, dSources[dI + 1])
     IN  IF TakesOver(contribution, dMax)
           THEN dMax' = contribution /\ dIndex' = dI
         ELSE UNCHANGED <<dMax, dIndex>>
  /\ dI' = dI + 1
  /\ UNCHANGED <<dPoint, dSources, dPc, dResult>>
  /\ UNCHANGED <<kVars, eVars, tVars, gVars, nVars, fVars, qVars, appVars>>

\* line 118
DominantReturn ==
  /\ dPc = "loop"
  /\ dI = Len(dSources)
  /\ dResult' = [sourceIndex |-> dIndex, contribution |-> dMax]
  /\ dPc' = "done"
  /\ UNCHANGED <<dPoint, dSources, dI, dMax, dIndex>>
  /\ UNCHANGED <<kVars, eVars, tVars, gVars, nVars, fVars, qVars, appVars>>

DominantNext == DominantCall \/ DominantStep \/ DominantReturn

SpecDominant == DominantInit /\ [][DominantNext]_vars

(***************************************************************************)
(* components/FieldFlow.tsx: the seeds and the memo of FieldFlow;          *)
(* physics/field.ts: computeForceOnTestCharge                              *)
(***************************************************************************)
SEED_SPHERE_RADIUS == Int2R(6)
\* line 342: points.length >= 20
MIN_LINE_POINTS == 20

\* lines 72-84: the seed of index i.  For y = 1 and y = -1 (i = 0 and
\* i = numSeeds - 1) radius is 0, and x = cos(theta) * 0 and
\* z = sin(theta) * 0 are 0 whatever theta is; the other seeds have
\* irrational coordinates and are not taken (see Densities).
ShellSeed(i, numSeeds) ==
  LET y == RSub(One, RMul(Rat(i, numSeeds - 1), Int2R(2)))
      radius == RSqrt(RSub(One, RMul(y, y)))
      x == RMul(One, radius)
      z == RMul(Zero, radius)
  IN  VScale(SEED_SPHERE_RADIUS, <<x, y, z>>)

\* lines 71-99: the loop of generateSphereShellSeeds from index i on
RECURSIVE ShellSeedsFrom(_, _, _)
ShellSeedsFrom(i, sources, numSeeds) ==
  IF i >= numSeeds THEN <<>>
  ELSE LET seed == ShellSeed(i, numSeeds)
       IN  (IF isTooCloseToSource(seed, sources) THEN <<>> ELSE <<seed>>)
             \o ShellSeedsFrom(i + 1, sources, numSeeds)

generateSphereShellSeeds(sources, numSeeds) ==
  ShellSeedsFrom(0, sources, numSeeds)

\* the memo that keeps every line
KeepsLineAlways(points) == TRUE

\* line 342: only lines with enough points are kept
KeepsLine(points) == Len(points) >= MIN_LINE_POINTS

\* the force taken from the electric field whatever the mode
computeForceElectricOnly(point, testValue, mode, sources) ==
  LET field == computeElectricFieldAtPoint(point, sources)
  IN  <<RMul(field[1], testValue), RMul(field[2], testValue),
        RMul(field[3], testValue)>>

\* the force with the test value added to the field
computeForceOffset(point, testValue, mode, sources) ==
  LET field == fieldAt(point, sources, mode)
  IN  <<RAdd(field[1], testValue), RAdd(field[2], testValue),
        RAdd(field[3], testValue)>>

\* field.ts lines 127-151
computeForceOnTestCharge(point, testValue, mode, sources) ==
  LET field == fieldAt(point, sources, mode)
  IN  <<RMul(field[1], testValue), RMul(field[2], testValue),
        RMul(field[3], testValue)>>

\* lines 327-330: the guard of the memo (enabled is true at the only place
\* the component is used)
FlowMemo ==
  /\ fPc = "call"
  /\ ~SamplerRunning
  /\ IF Len(fSources) = 0
       THEN fLines' = <<>> /\ fPc' = "done"
       ELSE fPc' = "seeds" /\ UNCHANGED fLines
  /\ UNCHANGED <<fSources, fMode, fDensity, fSeeds, fIdx>>
  /\ UNCHANGED <<kVars, eVars, tVars, gVars, nVars, qVars, dVars, appVars>>

\* lines 332-335: the seeds are generated
FlowSeeds ==
  /\ fPc = "seeds"
  /\ fSeeds' = generateSphereShellSeeds(fSources, fDensity)
  /\ fLines' = <<>> /\ fIdx' = 0
  /\ fPc' = "loop"
  /\ UNCHANGED <<fSources, fMode, fDensity>>
  /\ UNCHANGED <<kVars, eVars, tVars, gVars, nVars, qVars, dVars, appVars>>

\* lines 338-339: traceFieldLine is called for the next seed
FlowCallTrace ==
  /\ fPc = "loop"
  /\ fIdx < Len(fSeeds)
  /\ tSeed' = fSeeds[fIdx + 1] /\ tSources' = fSources /\ tMode' = fMode
  /\ tPc' = "call" /\ tPos' = ZeroVec /\ tI' = 0 /\ tIters' = 0
  /\ tPoints' = <<>> /\ tForward' = NONE /\ tBackward' = NONE /\ tLine' = NONE
  /\ fPc' = "trace"
  /\ UNCHANGED <<fSources, fMode, fDensity, fSeeds, fIdx, fLines>>
  /\ UNCHANGED <<kVars, eVars, gVars, nVars, qVars, dVars, appVars>>

\* lines 339-346: traceFieldLine has returned; the line is kept or dropped
\* (the random phaseOffset of a line is left out)
FlowKeepLine ==
  /\ fPc = "trace"
  /\ tPc = "done"
  /\ fLines' = IF KeepsLine(tLine)
                 THEN Append(fLines, [seed |-> tSeed, points |-> tLine])
               ELSE fLines
  /\ fIdx' = fIdx + 1
  /\ fPc' = "loop"
  /\ UNCHANGED <<fSources, fMode, fDensity, fSeeds>>
  /\ UNCHANGED <<kVars, eVars, tVars, gVars, nVars, qVars, dVars, appVars>>

\* line 349
FlowReturn ==
  /\ fPc = "loop"
  /\ fIdx = Len(fSeeds)
  /\ fPc' = "done"
  /\ UNCHANGED <<fSources, fMode, fDensity, fSeeds, fIdx, fLines>>
  /\ UNCHANGED <<kVars, eVars, tVars, gVars, nVars, qVars, dVars, appVars>>

\* one call of computeForceOnTestCharge, between two memos
ForceEval ==
  /\ qForce = NONE
  /\ ~SamplerRunning /\ ~FlowRunning
  /\ qForce' = computeForceOnTestCharge(qPoint, qTestValue, qMode, qSources)
  /\ UNCHANGED <<qPoint, qTestValue, qMode, qSources>>
  /\ UNCHANGED <<kVars, eVars, tVars, gVars, nVars, fVars, dVars, appVars>>

(***************************************************************************)
(* SpecScene: one scene of the store (sources and mode) drawn by           *)
(* FieldVectors and by FieldFlow and probed by computeForceOnTestCharge.   *)
(* The sources lie on the y axis, the grid is the single point of a        *)
(* half-extent of 0 and the seeds are the two poles of the shell, so that  *)
(* every distance taken is rational.                                       *)
(***************************************************************************)
\* 0: no seed; 2: the two poles (0, 6, 0) and (0, -6, 0)
Densities == {0, 2}

OnYAxis(y) == <<Zero, y, Zero>>

Scene(sources, mode) == [sources |-> sources, mode |-> mode]

\* a source of value 0 next to the lower pole: the seed there is skipped
LowerPoleGuard == SourceAt(9, OnYAxis(Int2R(-6)), Zero)

Scenes ==
  \* no source
  { Scene(<<>>, mode) : mode \in Modes }
  \* one mass on the only grid point: lines from both poles that run into
  \* the mass on one side and end where the field is too weak on the other
  \cup { Scene(<<SourceAt(1, ZeroVec, Int2R(2))>>, "gravity") }
  \* one source of value 0: no field anywhere
  \cup { Scene(<<SourceAt(1, OnYAxis(One), Zero)>>, "electric") }
  \* a mass within 0.15 of the upper pole
  \cup { Scene(<<SourceAt(1, OnYAxis(Rat(489, 80)), Int2R(4))>>, "gravity") }
  \* the upper pole between two sources of opposite sign, near: a short
  \* line; farther: a line of more than MIN_LINE_POINTS points
  \cup { Scene(<<SourceAt(1, OnYAxis(Rat(261, 40)), Int2R(-1)),
                 SourceAt(2, OnYAxis(Rat(87, 16)), One),
                 LowerPoleGuard>>, "electric"),
         Scene(<<SourceAt(1, OnYAxis(Rat(549, 80)), Int2R(-1)),
                 SourceAt(2, OnYAxis(Rat(427, 80)), One),
                 LowerPoleGuard>>, "electric") }
  \* the upper pole next to the midpoint of two equal sources: the forward
  \* trace steps across the midpoint and back until the step count is used
  \cup { Scene(<<SourceAt(1, OnYAxis(Rat(37, 8)), One),
                 SourceAt(2, OnYAxis(Rat(37, 5)), One),
                 LowerPoleGuard>>, "electric") }

\* probes: on the grid point, on the upper pole, off the axes
ProbePoints == { ZeroVec, OnYAxis(Int2R(6)), <<Int2R(3), Int2R(-4), Int2R(12)>> }
ProbeValues == { Int2R(-1), Zero, Int2R(2) }

SceneInit ==
  /\ \E sc \in Scenes :
       /\ gSources = sc.sources /\ fSources = sc.sources /\ qSources = sc.sources
       /\ gMode = sc.mode /\ fMode = sc.mode /\ qMode = sc.mode
       /\ IF sc.sources = <<>>
            THEN qPoint \in ProbePoints /\ qTestValue \in ProbeValues
            ELSE qPoint = OnYAxis(Int2R(6)) /\ qTestValue = Int2R(-1)
       /\ fDensity \in (IF sc.sources = <<>> THEN Densities ELSE {2})
  /\ gGridSize = Zero /\ gPc = "call" /\ gPoints = NONE /\ gIdx = 0
  /\ gArrowData = <<>> /\ gMax = Zero /\ gMin = Zero /\ gStrengths = NONE
  /\ fPc = "call" /\ fSeeds = NONE /\ fIdx = 0 /\ fLines = <<>>
  /\ qForce = NONE
  /\ StrengthIdle /\ DominantIdle
  /\ KernelIdle /\ EqIdle /\ TraceIdle
  /\ AppIdle

SamplerNext ==
  SamplerMemo \/ GenerateGrid \/ SampleStep \/ SamplerReturn \/ SamplerRender

FlowNext ==
  \/ FlowMemo \/ FlowSeeds \/ FlowCallTrace \/ FlowKeepLine \/ FlowReturn
  \/ TraceStart \/ TraceStep \/ TraceLoopExit \/ TraceForwardReturn
  \/ TraceAssemble

SceneNext == SamplerNext \/ FlowNext \/ ForceEval

SpecScene == SceneInit /\ [][SceneNext]_vars

(***************************************************************************)
(* SpecForce: computeForceOnTestCharge on the points and sources of the    *)
(* kernel queries and a few test values                                    *)
(***************************************************************************)
MaxForceSources == 2

TestValues == { Int2R(-2), Int2R(-1), Zero, Rat(1, 2), Int2R(3) }

ForceInit ==
  /\ qPoint \in KernelPoints
  /\ qTestValue \in TestValues
  /\ qMode \in Modes
  /\ qSources \in SourceLists(KernelPool, MaxForceSources)
  /\ ExactQuery(qPoint, qSources)
  /\ qForce = NONE
  /\ SamplerIdle /\ StrengthIdle /\ FlowIdle /\ DominantIdle
  /\ KernelIdle /\ EqIdle /\ TraceIdle
  /\ AppIdle

ForceNext == ForceEval

SpecForce == ForceInit /\ [][ForceNext]_vars

(***************************************************************************)
(* state/store.ts: the store, and the selection kept by Scene              *)
(***************************************************************************)
\* physics/types.ts: TestCharge
TestCharge(position, value) == [position |-> position, value |-> value]

\* a source of a preset: a FieldSource without its id
PresetSource(position, value) ==
  [position |-> position, value |-> value, kind |-> "source"]

\* the object spread {...object, ...updates}
Spread(object, updates) ==
  [key \in DOMAIN object \cup DOMAIN updates |->
     IF key \in DOMAIN updates THEN updates[key] ELSE object[key]]

\* lines 24-26: `source-${now}-${suffix}`, where now is the value of
\* Date.now() and suffix the substring of Math.random().toString(36); the
\* string determines the pair and the pair the string
generateId(now, suffix) == <<now, suffix>>

\* lines 37-48: the sources after addSource, id being the id generated
addSource(sources, id, position, value) ==
  Append(sources,
         [id |-> id, position |-> position, value |-> value, kind |-> "source"])

\* updateSource applied to every source, whatever its id
updateSourceEvery(sources, id, updates) ==
  [i \in 1..Len(sources) |-> Spread(sources[i], updates)]

\* lines 50-55: the sources after updateSource
updateSource(sources, id, updates) ==
  [i \in 1..Len(sources) |->
     IF sources[i].id = id THEN Spread(sources[i], updates) ELSE sources[i]]

\* lines 57-60: the sources after removeSource
removeSource(sources, id) == SelectSeq(sources, LAMBDA source : source.id # id)

\* lines 67-70: the test charge after updateTestCharge
updateTestCharge(testCharge, updates) ==
  IF testCharge # Null THEN Some(Spread(testCharge[1], updates)) ELSE Null

\* lines 76-79: the sources of a preset with the ids generated for them
sourcesWithIds(preset, ids) ==
  [i \in 1..Len(preset.sources) |-> Spread(preset.sources[i], [id |-> ids[i]])]

\* the mode after loadPreset if a preset without mode reset it to the
\* store's initial mode
presetModeOrInitial(preset, mode) ==
  IF "mode" \in DOMAIN preset THEN preset.mode ELSE "electric"

\* lines 81-89: the mode after loadPreset
presetMode(preset, mode) ==
  IF "mode" \in DOMAIN preset THEN preset.mode ELSE mode

\* utils/presets.ts
PRESET_SINGLE_SOURCE ==
  [sources |-> <<PresetSource(ZeroVec, Int2R(2))>>,
   testCharge |-> Some(TestCharge(OnAxis(Int2R(2)), One))]

PRESET_DIPOLE ==
  [mode |-> "electric",
   sources |-> <<PresetSource(OnAxis(Int2R(-1)), Int2R(2)),
                 PresetSource(OnAxis(One), Int2R(-2))>>,
   testCharge |-> Some(TestCharge(<<Zero, One, Zero>>, One))]

PRESET_TWO_LIKE_CHARGES ==
  [sources |-> <<PresetSource(OnAxis(Int2R(-2)), Int2R(2)),
                 PresetSource(OnAxis(Int2R(2)), Int2R(2))>>,
   testCharge |-> Some(TestCharge(ZeroVec, One))]

PRESET_PLANET_TEST_MASS ==
  [mode |-> "gravity",
   sources |-> <<PresetSource(ZeroVec, Int2R(10))>>,
   testCharge |-> Some(TestCharge(OnAxis(Int2R(3)), One))]

\* the presets of the sidebar whose numbers are modelled
Presets ==
  { PRESET_SINGLE_SOURCE, PRESET_DIPOLE, PRESET_TWO_LIKE_CHARGES,
    PRESET_PLANET_TEST_MASS }

\* handleAddSource: the value of a new source, 1e-9 or 5.0
DefaultSourceValue(mode) ==
  IF mode = "electric" THEN Rat(1, 1000000000) ELSE Int2R(5)

\* 1e-12 as mantissa and decimal exponent (its denominator is no 32-bit
\* integer); the value is stored and never computed with
PICO == <<1, "e", -12>>

\* handleAddTestCharge, handlePlaceAtEquilibrium: the value of a new test
\* charge, 1e-12 or 1.0
DefaultTestValue(mode) == IF mode = "electric" THEN PICO ELSE One

(***************************************************************************)
(* The operations of the store and the clicks on a source                  *)
(***************************************************************************)
\* the operations and clicks of one behaviour
MaxStoreOps == 3

\* the values Date.now() can return after it returned now: the same
\* millisecond or a later one
ClockFrom(now) == {now, now + 1}
\* two of the strings Math.random().toString(36).substring(2, 11) can
\* return (for 0.5 and 0.25)
Suffixes == {"i", "9"}

\* the ids n calls of generateId can return one after the other
IdRuns(now, n) ==
  { ids \in [1..n -> (now..(now + n)) \X Suffixes] :
      /\ ids[1][1] \in ClockFrom(now)
      /\ \A i \in 1..(n - 1) : ids[i + 1][1] \in ClockFrom(ids[i][1]) }

\* the ids of the sources
IdsOf(sources) == { sources[i].id : i \in 1..Len(sources) }

\* an id no source has
STRAY_ID == generateId(0, "")

\* the ids passed to updateSource and removeSource
TargetIds == IdsOf(sSources) \cup {STRAY_ID}

\* what the scene and the sidebar pass to updateSource
SourceUpdates ==
  { [position |-> <<Zero, Int2R(3), Zero>>], [value |-> Int2R(-4)] }

\* what the scene and the sidebar pass to updateTestCharge
TestChargeUpdates ==
  { [position |-> <<Zero, Int2R(3), Zero>>], [value |-> Int2R(-4)] }

\* no handler of the sidebar is running, and one more operation is counted
StoreStep == ePc = "idle" /\ sOps < MaxStoreOps /\ sOps' = sOps + 1

\* line 35
SetMode(mode) ==
  /\ StoreStep
  /\ sMode' = mode
  /\ UNCHANGED <<sSources, sTestCharge, sNow, sRef, uVars>>
  /\ UNCHANGED <<kVars, eVars, tVars, gVars, nVars, fVars, qVars, dVars>>

\* lines 37-48
AddSource(position, value) ==
  /\ StoreStep
  /\ \E now \in ClockFrom(sNow), suffix \in Suffixes :
       /\ sNow' = now
       /\ sSources' = addSource(sSources, generateId(now, suffix), position,
                                value)
  /\ sRef' = sOps'
  /\ UNCHANGED <<sMode, sTestCharge, uVars>>
  /\ UNCHANGED <<kVars, eVars, tVars, gVars, nVars, fVars, qVars, dVars>>

\* components/TestChargeSphere.tsx lines 770-775: handleAddSource
HandleAddSource == AddSource(ZeroVec, DefaultSourceValue(sMode))

\* lines 50-55
UpdateSource(id, updates) ==
  /\ StoreStep
  /\ sSources' = updateSource(sSources, id, updates)
  /\ sRef' = sOps'
  /\ UNCHANGED <<sMode, sTestCharge, sNow, uVars>>
  /\ UNCHANGED <<kVars, eVars, tVars, gVars, nVars, fVars, qVars, dVars>>

\* lines 57-60
RemoveSource(id) ==
  /\ StoreStep
  /\ sSources' = removeSource(sSources, id)
  /\ sRef' = sOps'
  /\ UNCHANGED <<sMode, sTestCharge, sNow, uVars>>
  /\ UNCHANGED <<kVars, eVars, tVars, gVars, nVars, fVars, qVars, dVars>>

\* lines 62-65
SetTestCharge(position, value) ==
  /\ StoreStep
  /\ sTestCharge' = Some(TestCharge(position, value))
  /\ UNCHANGED <<sMode, sSources, sNow, sRef, uVars>>
  /\ UNCHANGED <<kVars, eVars, tVars, gVars, nVars, fVars, qVars, dVars>>

\* components/TestChargeSphere.tsx lines 777-782: handleAddTestCharge
HandleAddTestCharge == SetTestCharge(ZeroVec, DefaultTestValue(sMode))

\* lines 67-70
UpdateTestCharge(updates) ==
  /\ StoreStep
  /\ sTestCharge' = updateTestCharge(sTestCharge, updates)
  /\ UNCHANGED <<sMode, sSources, sNow, sRef, uVars>>
  /\ UNCHANGED <<kVars, eVars, tVars, gVars, nVars, fVars, qVars, dVars>>

\* line 72
RemoveTestCharge ==
  /\ StoreStep
  /\ sTestCharge' = Null
  /\ UNCHANGED <<sMode, sSources, sNow, sRef, uVars>>
  /\ UNCHANGED <<kVars, eVars, tVars, gVars, nVars, fVars, qVars, dVars>>

\* lines 74-92
LoadPreset(preset) ==
  /\ StoreStep
  /\ \E ids \in IdRuns(sNow, Len(preset.sources)) :
       /\ sNow' = ids[Len(ids)][1]
       /\ sSources' = sourcesWithIds(preset, ids)
  /\ sTestCharge' = preset.testCharge
  /\ sMode' = presetMode(preset, sMode)
  /\ sRef' = sOps'
  /\ UNCHANGED uVars
  /\ UNCHANGED <<kVars, eVars, tVars, gVars, nVars, fVars, qVars, dVars>>

\* components/ScenePanel.tsx line 107: onSelect of the source with this id
ClickSource(id) ==
  /\ StoreStep
  /\ uSelected' = IF uSelected = Some(id) THEN Null ELSE Some(id)
  /\ UNCHANGED <<sMode, sSources, sTestCharge, sNow, sRef>>
  /\ UNCHANGED <<kVars, eVars, tVars, gVars, nVars, fVars, qVars, dVars>>

\* the value handlePlaceAtEquilibrium would pass if it never kept the value
\* of the test charge
placedValueDefault(testCharge, mode) == DefaultTestValue(mode)

\* components/TestChargeSphere.tsx line 790: testValue
placedValue(testCharge, mode) ==
  IF testCharge # Null THEN testCharge[1].value ELSE DefaultTestValue(mode)

\* components/TestChargeSphere.tsx lines 784-786: handlePlaceAtEquilibrium
\* calls findEquilibriumPoint with the sources and the mode of the store
PlaceCall ==
  /\ StoreStep
  /\ eSources' = sSources /\ eMode' = sMode /\ ePc' = "call"
  /\ UNCHANGED <<eClosed, eEst, eIter, eEvals, eTrail, eResult>>
  /\ UNCHANGED <<sMode, sSources, sTestCharge, sNow, sRef, uVars, mVars>>
  /\ UNCHANGED <<kVars, tVars, gVars, nVars, fVars, qVars, dVars>>

\* components/TestChargeSphere.tsx lines 788-793: the rest of the handler,
\* after findEquilibriumPoint has returned
PlaceFinish ==
  /\ ePc = "done"
  /\ sTestCharge' =
       IF eResult # NULL
         THEN Some(TestCharge(eResult, placedValue(sTestCharge, sMode)))
         ELSE sTestCharge
  /\ eSources' = <<>> /\ eMode' = "electric" /\ ePc' = "idle"
  /\ eClosed' = NONE /\ eEst' = NONE /\ eIter' = 0 /\ eEvals' = 0
  /\ eResult' = NONE /\ eTrail' = <<>>
  /\ UNCHANGED <<sMode, sSources, sNow, sOps, sRef, uVars, mVars>>
  /\ UNCHANGED <<kVars, tVars, gVars, nVars, fVars, qVars, dVars>>

(***************************************************************************)
(* SpecStore: the store from its creation on, under any sequence of its    *)
(* operations and of clicks on the sources drawn                           *)
(***************************************************************************)
StoreInit == KernelIdle /\ EqIdle /\ TraceIdle /\ ViewIdle

StoreOperation ==
  \/ \E mode \in Modes : SetMode(mode)
  \/ HandleAddSource
  \/ \E id \in TargetIds, updates \in SourceUpdates : UpdateSource(id, updates)
  \/ \E id \in TargetIds : RemoveSource(id)
  \/ HandleAddTestCharge
  \/ \E updates \in TestChargeUpdates : UpdateTestCharge(updates)
  \/ RemoveTestCharge
  \/ \E preset \in Presets : LoadPreset(preset)

\* the components that draw the field are left out of SpecStore
StoreNext ==
  /\ StoreOperation \/ \E id \in IdsOf(sSources) : ClickSource(id)
  /\ UNCHANGED mVars

SpecStore == StoreInit /\ [][StoreNext]_vars

(***************************************************************************)
(* SpecPlace: handlePlaceAtEquilibrium, called up to MaxStoreOps times on  *)
(* a store that holds one of the source lists of SpecEq, in either mode,   *)
(* with or without a test charge                                           *)
(***************************************************************************)
\* a source list as the store holds it, with ids generated one millisecond
\* after the other
Stored(sources) ==
  [i \in 1..Len(sources) |->
     Spread(sources[i], [id |-> generateId(i, "i")])]

PlaceInit ==
  /\ \E sources \in SolverPairs \cup OtherLists :
       sSources = Stored(sources) /\ sNow = Len(sources)
  /\ sMode \in Modes
  /\ sTestCharge \in {Null, Some(TestCharge(<<Zero, Int2R(3), Zero>>, Int2R(-4)))}
  /\ sOps = 0 /\ sRef = 0 /\ uSelected = Null
  /\ AppDefaults /\ FirstRender
  /\ KernelIdle /\ EqIdle /\ TraceIdle /\ DrawingIdle

PlaceNext == PlaceCall \/ EqNext \/ PlaceFinish

SpecPlace == PlaceInit /\ [][PlaceNext]_vars

(***************************************************************************)
(* SpecMemo: the store, the parameters of App and the memos of the         *)
(* mounted field component, rendered again after every operation           *)
(***************************************************************************)
\* positions of the pulse a frame can draw
PulseSteps == 2

\* values of the sliders of the sidebar
GridSizeValues == {Int2R(8), Int2R(4)}
DensityValues == {100, 50}
Visualizations == {"vector", "streamline"}

\* components/TestChargeSphere.tsx lines 875, 881
SetFieldVisualizationMode(value) ==
  /\ StoreStep
  /\ uVisualization' = value
  /\ UNCHANGED <<uGridSize, uDensity, uPhase>>
  /\ UNCHANGED <<sMode, sSources, sTestCharge, sNow, sRef, uVars>>
  /\ UNCHANGED <<kVars, eVars, tVars, gVars, nVars, fVars, qVars, dVars>>

\* components/TestChargeSphere.tsx line 914
SetGridSize(value) ==
  /\ StoreStep
  /\ uGridSize' = value
  /\ UNCHANGED <<uVisualization, uDensity, uPhase>>
  /\ UNCHANGED <<sMode, sSources, sTestCharge, sNow, sRef, uVars>>
  /\ UNCHANGED <<kVars, eVars, tVars, gVars, nVars, fVars, qVars, dVars>>

\* components/TestChargeSphere.tsx line 937
SetFieldFlowDensity(value) ==
  /\ StoreStep
  /\ uDensity' = value
  /\ UNCHANGED <<uVisualization, uGridSize, uPhase>>
  /\ UNCHANGED <<sMode, sSources, sTestCharge, sNow, sRef, uVars>>
  /\ UNCHANGED <<kVars, eVars, tVars, gVars, nVars, fVars, qVars, dVars>>

ParameterChange ==
  \/ \E value \in Visualizations : SetFieldVisualizationMode(value)
  \/ \E value \in GridSizeValues : SetGridSize(value)
  \/ \E value \in DensityValues : SetFieldFlowDensity(value)

\* the operations of the store that change the sources or the mode
FieldOperation ==
  /\ \/ \E mode \in Modes : SetMode(mode)
     \/ HandleAddSource
     \/ \E id \in TargetIds, updates \in SourceUpdates :
          UpdateSource(id, updates)
     \/ \E id \in TargetIds : RemoveSource(id)
     \/ \E preset \in {PRESET_SINGLE_SOURCE, PRESET_PLANET_TEST_MASS} :
          LoadPreset(preset)
  /\ UNCHANGED <<uVisualization, uGridSize, uDensity, uPhase>>

\* the render that follows a change of the store or of the state of App:
\* the components read the new state, each memo compares its dependencies
Rerender ==
  /\ mVectors' = VectorsRendered(mVectors, uVisualization', sMode', sSources',
                                 sRef', uGridSize')
  /\ mFlow' = FlowRendered(mFlow, uVisualization', sMode', sSources', sRef',
                           uDensity')

\* components/FieldFlow.tsx lines 253-293: a frame; the callbacks of
\* useFrame set the colours of the lines for the phase of the pulse and set
\* no state of a component or of the store, so that nothing is rendered
Frame ==
  /\ ePc = "idle"
  /\ uPhase' = (uPhase + 1) % PulseSteps
  /\ UNCHANGED <<uVisualization, uGridSize, uDensity, mVectors, mFlow>>
  /\ UNCHANGED <<sVars, uVars>>
  /\ UNCHANGED <<kVars, eVars, tVars, gVars, nVars, fVars, qVars, dVars>>

MemoNext == ((FieldOperation \/ ParameterChange) /\ Rerender) \/ Frame

SpecMemo == StoreInit /\ [][MemoNext]_vars

(***************************************************************************)
(* Claims about the field kernel, checked under SpecKernel                 *)
(***************************************************************************)
FieldConstant(mode) ==
  IF mode = "electric" THEN COULOMB_CONSTANT ELSE GRAVITATIONAL_CONSTANT

Dot(u, v) == RAdd(RAdd(RMul(u[1], v[1]), RMul(u[2], v[2])), RMul(u[3], v[3]))
Cross(u, v) ==
  << RSub(RMul(u[2], v[3]), RMul(u[3], v[2])),
     RSub(RMul(u[3], v[1]), RMul(u[1], v[3])),
     RSub(RMul(u[1], v[2]), RMul(u[2], v[1])) >>
\* u is a positive multiple of v
SameDirection(u, v) == Cross(u, v) = ZeroVec /\ RSign(Dot(u, v)) > 0

\* the kernel was called for the single source kA[1]
SingleSourceDone == Len(kA) = 1 /\ kOutA # NONE

\* |constant * value| / r^2, r the physical distance floored at
\* MIN_DISTANCE * METERS_PER_SCENE_UNIT
InverseSquareMagnitude(point, source, mode) ==
  LET r == RMax(distance(sceneToMeters(point), sceneToMeters(source.position)),
                RMul(MIN_DISTANCE, METERS_PER_SCENE_UNIT))
  IN  RDiv(RAbs(RMul(FieldConstant(mode), source.value)), RMul(r, r))

\* C2: for a single source and a point not on it, the norm of the returned
\* field is |constant * value| / r^2 (the direction factor has length 1 at
\* every distance).
C2_NormIsInverseSquare ==
  (SingleSourceDone /\ kPoint # kA[1].position) =>
    VNorm(kOutA) = InverseSquareMagnitude(kPoint, kA[1], kMode)

\* C3: superposition: the field of kA \o kB is the component-wise sum of the
\* field of kA and the field of kB, in both modes, coincident sources
\* included.
C3_Superposition ==
  (kOutA # NONE /\ kOutB # NONE /\ kOutAB # NONE) =>
    kOutAB = VAdd(kOutA, kOutB)

\* both lists are non-empty, they hold sources at one position, and the three
\* fields are computed and the total is not zero
C3_Witness ==
  /\ kOutA # NONE /\ kOutB # NONE /\ kOutAB # NONE
  /\ Len(kA) = 2 /\ Len(kB) = 1
  /\ kA[1].position = kB[1].position /\ kA[1].id # kB[1].id
  /\ kOutAB # ZeroVec /\ kOutA # ZeroVec /\ kOutB # ZeroVec

\* C4: single source, point not on it: the electric field points from the
\* source to the point for value > 0 and from the point to the source for
\* value < 0; the gravitational field of a value > 0 points from the point to
\* the source.
C4_Direction ==
  (SingleSourceDone /\ kPoint # kA[1].position) =>
    LET away == VSub(kPoint, kA[1].position)
        toward == VSub(kA[1].position, kPoint)
        sgn == RSign(kA[1].value)
    IN  /\ (kMode = "electric" /\ sgn > 0) => SameDirection(kOutA, away)
        /\ (kMode = "electric" /\ sgn < 0) => SameDirection(kOutA, toward)
        /\ (kMode = "gravity" /\ sgn > 0) => SameDirection(kOutA, toward)

\* an electric query off the axis for a negative source
C4_Witness ==
  /\ SingleSourceDone /\ kMode = "electric"
  /\ RSign(kA[1].value) < 0
  /\ kPoint[2] # Zero /\ kPoint[3] # Zero

\* the magnitude the kernel computes at distance exactly MIN_DISTANCE (scene
\* units) from the source
MagnitudeAtMinDistance(source, mode) ==
  VNorm(fieldAt(VAdd(source.position, <<MIN_DISTANCE, Zero, Zero>>),
                <<source>>, mode))

\* C5: clamp boundedness: for a single source the magnitude at any point, the
\* source's own position included, is a number and does not exceed the
\* magnitude at distance exactly MIN_DISTANCE.
C5_ClampBounded ==
  SingleSourceDone =>
    /\ \A i \in 1..3 : kOutA[i][2] > 0
    /\ RLe(VNorm(kOutA), MagnitudeAtMinDistance(kA[1], kMode))

\* a query at the position of the source, and one inside the clamp
C5_Witness ==
  /\ SingleSourceDone
  /\ kPoint = kA[1].position

(***************************************************************************)
(* Claims about findEquilibriumPoint, checked under SpecClosed and SpecEq  *)
(***************************************************************************)
\* the call has two sources in electric mode
PairCall == Len(eSources) = 2 /\ eMode = "electric"

\* the two values are like-signed / opposite-signed (both non-zero)
LikeSigned == RSign(eSources[1].value) * RSign(eSources[2].value) > 0
OppositeSigned == RSign(eSources[1].value) * RSign(eSources[2].value) < 0

\* the separation of the two sources, in scene units, and the floor on it
PairSeparation == distance(eSources[1].position, eSources[2].position)
BelowFloor == RLt(PairSeparation, MIN_DISTANCE)

\* C6: for a source list that is not a pair, and for every call in gravity
\* mode, findEquilibriumPoint returns null at once: no field is evaluated and
\* no closed form is computed.
C6_UnsupportedReturnsNull ==
  ((Len(eSources) # 2 \/ eMode # "electric") /\ ePc # "call") =>
    /\ ePc = "done" /\ eResult = NULL
    /\ eEvals = 0 /\ eClosed = NONE /\ eEst = NONE

\* a gravity-mode call with two sources has returned
C6_Witness ==
  Len(eSources) = 2 /\ eMode = "gravity" /\ ePc = "done" /\ eResult = NULL

\* C7: for two sources in electric mode, no position is returned when the
\* values are opposite-signed with equal magnitudes, nor when the sources are
\* closer than the floor (whatever the signs): the call has returned null as
\* soon as it is past the closed form.
C7_DegenerateReturnsNull ==
  ( /\ PairCall
    /\ \/ OppositeSigned /\ RAbs(eSources[1].value) = RAbs(eSources[2].value)
       \/ BelowFloor
    /\ ePc \notin {"call", "solve"} ) =>
    (ePc = "done" /\ eResult = NULL)

\* two like-signed sources closer than the floor: the call has returned null
C7_Witness ==
  PairCall /\ LikeSigned /\ BelowFloor /\ ePc = "done" /\ eResult = NULL

\* sqrt(|a|) / (sqrt(|a|) + sqrt(|b|))
LikeRatio(a, b) ==
  SurdOver(SurdSqrt(RAbs(a)), SurdAdd(SurdSqrt(RAbs(a)), SurdSqrt(RAbs(b))))

\* C8: like-signed pair at separation d >= floor: the closed-form estimate is
\* on the segment from source 1 to source 2 at distance r1 from source 1,
\* r1 / d = sqrt(|q1|) / (sqrt(|q1|) + sqrt(|q2|)), for every d and orientation.
C8_LikeEstimateOnSegment ==
  (PairCall /\ LikeSigned /\ ~BelowFloor /\ eClosed # NONE) =>
    LET p1Meters == sceneToMeters(eSources[1].position)
        p2Meters == sceneToMeters(eSources[2].position)
    IN  VSub(eClosed, p1Meters) =
          VScale(LikeRatio(eSources[1].value, eSources[2].value),
                 VSub(p2Meters, p1Meters))

\* the pair is Q at (-d/2,0,0) and Q at (d/2,0,0), Q # 0, d >= floor
EqualPairOnAxis ==
  /\ Len(eSources) = 2
  /\ eSources[1].value = eSources[2].value /\ eSources[1].value # Zero
  /\ eSources[1].position = VScale(Int2R(-1), eSources[2].position)
  /\ RSign(eSources[2].position[1]) > 0
  /\ eSources[2].position[2] = Zero /\ eSources[2].position[3] = Zero
  /\ ~BelowFloor

\* C9: two equal like charges at (-d/2,0,0) and (d/2,0,0), d >= floor, in
\* electric mode: the call returns a position within tolerance (1e-6 scene
\* units) of the origin, and the field magnitude there is below the
\* refinement tolerance.
C9_EqualChargesGiveOrigin ==
  (EqualPairOnAxis /\ eMode = "electric" /\ ePc = "done") =>
    /\ eResult # NULL
    /\ BelowPow10(VNorm(eResult), 0, 6)
    /\ BelowPow10(EstimateFieldMag(eResult, eSources), FieldExp10("electric"),
                  TOLERANCE_EXP10)

\* sqrt(|weak|) / (sqrt(|strong|) - sqrt(|weak|))
OppositeRatio(weak, strong) ==
  SurdOver(SurdSqrt(RAbs(weak)), SurdSub(SurdSqrt(RAbs(strong)), SurdSqrt(RAbs(weak))))

\* C10: opposite-signed pair of different magnitudes at separation d >= floor:
\* the closed-form estimate is on the line through the sources, beyond the
\* weaker source as seen from the stronger, at distance
\* x = sqrt(|q_weak|) * d / (sqrt(|q_strong|) - sqrt(|q_weak|)) from the weaker
\* source, whichever of the two is the weaker.
C10_OppositeEstimateBeyondWeaker ==
  ( /\ PairCall /\ OppositeSigned /\ ~BelowFloor
    /\ RAbs(eSources[1].value) # RAbs(eSources[2].value)
    /\ ePc \notin {"call", "solve"} ) =>
    LET weakIs1 == RLt(RAbs(eSources[1].value), RAbs(eSources[2].value))
        weak == IF weakIs1 THEN eSources[1] ELSE eSources[2]
        strong == IF weakIs1 THEN eSources[2] ELSE eSources[1]
        weakMeters == sceneToMeters(weak.position)
        strongMeters == sceneToMeters(strong.position)
    IN  /\ eClosed # NONE
        /\ VSub(eClosed, weakMeters) =
             VScale(OppositeRatio(weak.value, strong.value),
                    VSub(weakMeters, strongMeters))

(***************************************************************************)
(* Claims about the tracer, checked under SpecTrace                        *)
(***************************************************************************)
\* C1: a call of traceInDirection begins at most MAX_STEPS_PER_DIRECTION
\* (600) loop iterations and holds at most 600 points, whatever the seed,
\* the sources, the mode and the direction; so each of the two traces
\* returns at most 600 points and the line returned by traceFieldLine has at
\* most 2 * 600 + 1 points.
C1_TraceBounded ==
  /\ tIters <= MAX_STEPS_PER_DIRECTION
  /\ tI <= MAX_STEPS_PER_DIRECTION
  /\ Len(tPoints) <= MAX_STEPS_PER_DIRECTION
  /\ tForward # NONE => Len(tForward) <= MAX_STEPS_PER_DIRECTION
  /\ tBackward # NONE => Len(tBackward) <= MAX_STEPS_PER_DIRECTION
  /\ tLine # NONE => Len(tLine) <= 2 * MAX_STEPS_PER_DIRECTION + 1

\* a line has been returned whose forward trace never left the bounds, never
\* came near a source and never met a weak field: it ran all 600 iterations
C1_Witness ==
  /\ tPc = "done" /\ tLine # NONE /\ tSources # <<>>
  /\ Len(tForward) = MAX_STEPS_PER_DIRECTION
  /\ Len(tLine) = Len(tBackward) + 1 + MAX_STEPS_PER_DIRECTION

\* traceInDirection has returned the array tPoints
DirectionReturned == tPc \in {"forwardDone", "backwardDone"}

\* traceFieldLine has returned the line of a seed outside every exclusion
\* radius
LineReturned ==
  tPc = "done" /\ tLine # NONE /\ ~isTooCloseToSource(tSeed, tSources)

\* C14: for a seed outside every exclusion radius the line returned is the
\* backward trace in reversed order, then the seed, then the forward trace in
\* its own order, and nothing else; both traces start from the seed.
C14_LineAssembly ==
  LineReturned =>
    LET nb == Len(tBackward)
        nf == Len(tForward)
    IN  /\ Len(tLine) = nb + 1 + nf
        /\ \A i \in 1..nb : tLine[i] = tBackward[nb + 1 - i]
        /\ tLine[nb + 1] = tSeed
        /\ \A j \in 1..nf : tLine[nb + 1 + j] = tForward[j]
        /\ nb > 0 => tBackward[1] = tSeed
        /\ nf > 0 => tForward[1] = tSeed

\* a line has been returned whose two traces both hold several points, the
\* backward trace ending away from the seed
C14_Witness ==
  /\ LineReturned
  /\ Len(tBackward) >= 2 /\ Len(tForward) >= 2
  /\ tLine[1] = tBackward[Len(tBackward)]
  /\ tLine[1] # tSeed
  /\ tLine[Len(tLine)] = tForward[Len(tForward)]

\* the running traceInDirection begins an iteration at a position inside the
\* bounds and outside every exclusion radius, with a field of magnitude at
\* least MIN_FIELD_MAGNITUDE
StepFieldUsable ==
  /\ Tracing /\ LoopContinues(tI)
  /\ ~StopsBeforeField(tPos, tSources)
  /\ ~FieldTooWeak(fieldAt(tPos, tSources, tMode), tMode)

\* the field at the current position, divided by its magnitude
FieldDirection ==
  LET field == fieldAt(tPos, tSources, tMode)
  IN  VDivR(field, VNorm(field))

\* C25: in every iteration of traceInDirection that begins inside the bounds,
\* outside every exclusion radius and with a field magnitude of at least
\* MIN_FIELD_MAGNITUDE (1e-15), the tracer goes on and moves by a displacement
\* of length exactly STEP_SIZE along direction * (unit field direction); a
\* weak field stops it only below that floor.
C25_AdvancesUnlessBelowFloor ==
  [][StepFieldUsable =>
       /\ tPc' = tPc
       /\ VNorm(FieldDirection) = One
       /\ VSub(tPos', tPos)
            = VScale(RMul(STEP_SIZE, Int2R(TraceSign)), FieldDirection)
       /\ VNorm(VSub(tPos', tPos)) = STEP_SIZE]_vars

\* C26: traceInDirection records every position it visits, in the order of
\* the visits, the position where it detected its termination condition
\* (bounds, a source nearby, a vanished field, the step budget) included: as
\* long as it runs the points recorded are the positions before the current
\* one, and when it has returned the last point recorded is the position it
\* stopped at.
C26_RecordsEveryVisit ==
  /\ Tracing => Len(tPoints) = tI
  /\ DirectionReturned =>
       /\ Len(tPoints) > 0
       /\ tPoints[Len(tPoints)] = tPos

\* C27: traceInDirection never stores the seed, traceFieldLine adds it: the
\* seed occurs exactly once in every line assembled and two consecutive
\* points of the line differ.
C27_SeedOnceInLine ==
  LineReturned =>
    /\ \A i \in 1..Len(tForward) : tForward[i] # tSeed
    /\ \A i \in 1..Len(tBackward) : tBackward[i] # tSeed
    /\ Cardinality({i \in 1..Len(tLine) : tLine[i] = tSeed}) = 1
    /\ \A i \in 1..(Len(tLine) - 1) : tLine[i] # tLine[i + 1]

(***************************************************************************)
(* Claims about the refinement loop, checked under SpecEq                  *)
(***************************************************************************)
\* a call has returned a position
ReturnedPosition == ePc = "done" /\ eResult # NONE /\ eResult # NULL

\* C11: when findEquilibriumPoint returns a position, the field magnitude at
\* that position is no greater than the field magnitude at the closed-form
\* estimate and at every estimate the refinement loop went through.
C11_ReturnsBestEstimate ==
  ReturnedPosition =>
    \A i \in 1..Len(eTrail) :
      RLe(EstimateFieldMag(eResult, eSources),
          EstimateFieldMag(eTrail[i], eSources))

\* the field magnitude at an estimate is below TOLERANCE (1e-15)
BelowTolerance(est) ==
  BelowPow10(EstimateFieldMag(est, eSources), FieldExp10("electric"),
             TOLERANCE_EXP10)

\* the refinement loop has ended
LoopEnded == ePc \in {"return", "done"} /\ eTrail # <<>>

\* C12: the refinement loop evaluates the field at most MAX_ITERATIONS (10)
\* times; it moves the estimate only away from an estimate whose field
\* magnitude is not below TOLERANCE, so no estimate before the last one is
\* below TOLERANCE and a loop that ends before the 10th iteration ends on an
\* estimate below TOLERANCE; a call that used all 10 iterations returns its
\* last estimate, a position, not null.
C12_RefinementBounded ==
  /\ eEvals <= MAX_ITERATIONS
  /\ eIter <= MAX_ITERATIONS
  /\ Len(eTrail) <= MAX_ITERATIONS + 1
  /\ \A i \in 1..(Len(eTrail) - 1) : ~BelowTolerance(eTrail[i])
  /\ (LoopEnded /\ eIter < MAX_ITERATIONS) => BelowTolerance(eEst)
  /\ (ePc = "done" /\ eIter = MAX_ITERATIONS) =>
        /\ eResult # NULL
        /\ eResult = eTrail[MAX_ITERATIONS + 1]

\* a call has used all 10 iterations, moved the estimate in each, and has
\* returned the 11th estimate
C12_Witness ==
  /\ ReturnedPosition /\ eIter = MAX_ITERATIONS /\ eEvals = MAX_ITERATIONS
  /\ Len(eTrail) = MAX_ITERATIONS + 1
  /\ eResult = eTrail[MAX_ITERATIONS + 1]
  /\ eResult # eTrail[1]

\* the three ways a call of two sources in electric mode can end
NoEquilibrium == PairCall /\ ePc = "done" /\ eClosed = NONE
Exhausted == ReturnedPosition /\ eIter = MAX_ITERATIONS
Converged == ReturnedPosition /\ eIter < MAX_ITERATIONS

\* the value returned is a position and nothing else: three numbers
IsBarePosition(r) ==
  IF r = NONE \/ r = NULL THEN FALSE
  ELSE DOMAIN r = 1..3 /\ \A i \in 1..3 : DOMAIN r[i] = 1..2

\* C13: the value returned tells the outcomes apart: a call refused as
\* unsupported does not return the value returned when there is no
\* equilibrium (null), and a position returned after the 10 iterations were
\* used up carries a mark that a converged position (three numbers) lacks.
C13_OutcomesDistinguishable ==
  /\ (ePc = "done" /\ Unsupported(eSources, eMode)) => eResult # NULL
  /\ Exhausted => ~IsBarePosition(eResult)

(***************************************************************************)
(* Claims about generateGridPoints, checked under SpecGrid                 *)
(***************************************************************************)
GridReturned == gPc = "loop"

\* C17: generateGridPoints returns at most MAX_ARROWS points; a lattice of
\* count > MAX_ARROWS points is thinned to exactly the points whose
\* zero-based index is a multiple of N = ceil(count / MAX_ARROWS), in lattice
\* order, and a lattice of at most MAX_ARROWS points is returned unchanged.
C17_GridCapped ==
  GridReturned =>
    LET lattice == Lattice(gGridSize)
        count == Len(lattice)
        N == CeilDiv(count, MAX_ARROWS)
        multiples == { i \in 0..(count - 1) : i % N = 0 }
    IN  /\ Len(gPoints) <= MAX_ARROWS
        /\ count > MAX_ARROWS =>
             /\ Len(gPoints) = Cardinality(multiples)
             /\ \A j \in 1..Len(gPoints) : gPoints[j] = lattice[(j - 1) * N + 1]
        /\ count <= MAX_ARROWS => gPoints = lattice

\* a lattice of more than MAX_ARROWS points has been thinned
C17_Witness ==
  /\ GridReturned
  /\ Len(Lattice(gGridSize)) > MAX_ARROWS
  /\ Len(gPoints) < Len(Lattice(gGridSize))
  /\ gPoints[2] = Lattice(gGridSize)[3]

(***************************************************************************)
(* Claims about findDominantSource, checked under SpecDominant             *)
(***************************************************************************)
DominantReturned == dPc = "done" /\ Len(dSources) > 0

\* |value| / max(distance, 0.1)^2 of the source with zero-based index i
ContributionOf(i) == Contribution(dPoint, dSources[i + 1])

\* C19: for a non-empty source list findDominantSource returns the index of
\* a source whose contribution |value| / max(distance, 0.1)^2 is the largest
\* of all, and every source of a lower index has a smaller contribution.
C19_DominantIsLargest ==
  DominantReturned =>
    /\ dResult.sourceIndex \in 0..(Len(dSources) - 1)
    /\ dResult.contribution = ContributionOf(dResult.sourceIndex)
    /\ \A i \in 0..(Len(dSources) - 1) :
         RLe(ContributionOf(i), ContributionOf(dResult.sourceIndex))
    /\ \A i \in 0..(dResult.sourceIndex - 1) :
         RLt(ContributionOf(i), ContributionOf(dResult.sourceIndex))

\* the largest contribution is made by two sources, the first of which is
\* neither the first nor the last source of the list, and it is returned
C19_Witness ==
  /\ DominantReturned
  /\ Len(dSources) = 3
  /\ dResult.sourceIndex = 1
  /\ ContributionOf(2) = ContributionOf(1)
  /\ RLt(ContributionOf(0), ContributionOf(1))

(***************************************************************************)
(* Claims about the display strength, checked under SpecStrength           *)
(***************************************************************************)
\* the render has visited sample i
Visited(i) == nPc = "render" /\ i \in 1..Len(nStrengths)

\* the largest and the smallest magnitude of the samples
LargestSampled == CHOOSE a \in Range(nMags) : \A b \in Range(nMags) : RLe(b, a)
SmallestSampled == CHOOSE a \in Range(nMags) : \A b \in Range(nMags) : RLe(a, b)

\* C20: every sample's strength lies in [0, 1]; when the largest and the
\* smallest sampled magnitude differ, a sample of the largest magnitude has
\* strength 1 and a sample of no smaller magnitude has no smaller strength;
\* when the samples have one magnitude only, every sample that is drawn has
\* strength 1.
C20_StrengthNormalized ==
  \A i \in 1..Len(nMags) :
    Visited(i) =>
      /\ RLe(Zero, nStrengths[i]) /\ RLe(nStrengths[i], One)
      /\ LargestSampled # SmallestSampled =>
           /\ nMags[i] = LargestSampled => nStrengths[i] = One
           /\ \A j \in 1..Len(nMags) :
                (Visited(j) /\ RLe(nMags[i], nMags[j])) =>
                  RLe(nStrengths[i], nStrengths[j])
      /\ (LargestSampled = SmallestSampled /\ Rendered(nMags[i], nMode)) =>
           nStrengths[i] = One

\* three samples of different magnitudes have strengths 0, between 0 and 1,
\* and 1
C20_Witness ==
  /\ Visited(MaxSamples)
  /\ \E i, j, k \in 1..MaxSamples :
       /\ RLt(nMags[i], nMags[j]) /\ RLt(nMags[j], nMags[k])
       /\ nStrengths[i] = Zero /\ nStrengths[k] = One
       /\ RLt(Zero, nStrengths[j]) /\ RLt(nStrengths[j], One)

\* samples of one magnitude are drawn with strength 1
C20_WitnessOneMagnitude ==
  /\ Visited(2)
  /\ LargestSampled = SmallestSampled
  /\ Rendered(nMags[1], nMode)
  /\ nStrengths[1] = One /\ nStrengths[2] = One

(***************************************************************************)
(* Claims about the scene, checked under SpecScene                         *)
(***************************************************************************)
\* pos lies within radius of a source of the list
WithinOfSource(pos, sources, radius) ==
  \E i \in 1..Len(sources) : RLt(distance(pos, sources[i].position), radius)

FlowReturned == fPc = "done" /\ fSources # <<>>

\* C15: every line in the array handed to the renderer has at least 20
\* points and a seed outside every exclusion radius, and no line of the
\* array starts from a shell seed that lies within 0.15 of a source.
C15_LinesLongAndClear ==
  /\ \A l \in 1..Len(fLines) :
       /\ Len(fLines[l].points) >= 20
       /\ ~WithinOfSource(fLines[l].seed, fSources, Rat(3, 20))
  /\ FlowReturned =>
       \A i \in 0..(fDensity - 1) :
         WithinOfSource(ShellSeed(i, fDensity), fSources, Rat(3, 20)) =>
           \A l \in 1..Len(fLines) : fLines[l].seed # ShellSeed(i, fDensity)

\* the memo has returned no line: the seed of one pole lies next to a source
\* and the line of the other pole had 18 points
C15_Witness ==
  /\ FlowReturned
  /\ WithinOfSource(ShellSeed(1, fDensity), fSources, Rat(3, 20))
  /\ Len(fSeeds) = 1
  /\ tPc = "done" /\ tSeed = ShellSeed(0, fDensity) /\ Len(tLine) = 18
  /\ fLines = <<>>

\* the memo has returned one line of 27 points, the seed of the other pole
\* lies next to a source
C15_WitnessKept ==
  /\ FlowReturned
  /\ WithinOfSource(ShellSeed(1, fDensity), fSources, Rat(3, 20))
  /\ Len(fLines) = 1 /\ Len(fLines[1].points) = 27

\* C16: with no source the sampler's sample array is empty and its loop is
\* never entered, the array of lines is empty and no seed is generated, and
\* computeForceOnTestCharge returns the zero vector.
C16_EmptySceneIsEmpty ==
  /\ gSources = <<>> =>
       /\ gPc \in {"call", "memoDone", "done"}
       /\ gPc # "call" => gArrowData = <<>>
  /\ fSources = <<>> =>
       /\ fPc \in {"call", "done"}
       /\ fPc = "done" => fLines = <<>>
  /\ (qSources = <<>> /\ qForce # NONE) => qForce = ZeroVec

\* the empty scene has been drawn by both components and probed off the
\* origin with a test value other than 0
C16_Witness ==
  /\ gSources = <<>> /\ fSources = <<>> /\ qSources = <<>>
  /\ gPc = "done" /\ gArrowData = <<>> /\ gStrengths = NULL
  /\ fPc = "done" /\ fLines = <<>> /\ fDensity = 2
  /\ qForce # NONE /\ qForce = ZeroVec /\ qTestValue # Zero /\ qPoint # ZeroVec


\* C18: no arrow sample lies at a point within 0.8 of a source, and no
\* position of an array returned by traceInDirection lies within 0.15 of a
\* source.
C18_ExclusionRadii ==
  /\ \A i \in 1..Len(gArrowData) :
       ~WithinOfSource(gArrowData[i].position, gSources, Rat(4, 5))
  /\ DirectionReturned =>
       \A i \in 1..Len(tPoints) :
         ~WithinOfSource(tPoints[i], tSources, Rat(3, 20))

\* the only grid point lies on a source and got no arrow, and a trace has
\* ended one step before the exclusion radius of that source
C18_Witness ==
  /\ gPc = "done" /\ gSources # <<>>
  /\ Len(gPoints) = 1 /\ WithinOfSource(gPoints[1], gSources, Rat(4, 5))
  /\ gArrowData = <<>>
  /\ tPc = "done" /\ Len(tForward) > 1
  /\ WithinOfSource(tForward[Len(tForward)], tSources,
                    RAdd(Rat(3, 20), STEP_SIZE))

(***************************************************************************)
(* Claims about computeForceOnTestCharge, checked under SpecForce          *)
(***************************************************************************)
ForceReturned == qForce # NONE

\* the field of the selected mode at the probe
ProbedField ==
  IF qMode = "electric" THEN computeElectricFieldAtPoint(qPoint, qSources)
  ELSE computeGravitationalFieldAtPoint(qPoint, qSources)

\* C21: the force returned is the field of the selected mode at the point
\* times testValue in each component; the call with k * testValue returns k
\* times the force (k = -1: the opposite force), and the call with the sum
\* of two test values returns the sum of the two forces.
C21_ForceIsFieldTimesValue ==
  ForceReturned =>
    /\ qForce = VScale(qTestValue, ProbedField)
    /\ \A k \in {Int2R(-1), Int2R(2), Rat(1, 3)} :
         computeForceOnTestCharge(qPoint, RMul(k, qTestValue), qMode, qSources)
           = VScale(k, qForce)
    /\ \A t \in TestValues :
         computeForceOnTestCharge(qPoint, RAdd(qTestValue, t), qMode, qSources)
           = VAdd(qForce,
                  computeForceOnTestCharge(qPoint, t, qMode, qSources))

\* a negative test mass in the field of two masses: the force is not zero
\* and differs from the force the electric field would give
C21_Witness ==
  /\ ForceReturned
  /\ qMode = "gravity" /\ Len(qSources) = 2 /\ RSign(qTestValue) < 0
  /\ qForce # ZeroVec
  /\ qForce # VScale(qTestValue, computeElectricFieldAtPoint(qPoint, qSources))

(***************************************************************************)
(* Claims about the store and the selection, checked under SpecStore       *)
(***************************************************************************)
\* C23: source ids are unique: after any sequence of addSource,
\* updateSource, removeSource and loadPreset no two sources of the store have
\* the same id (so the id given to a new source differs from the id of every
\* source already there).
C23_IdsUnique ==
  \A i \in 1..Len(sSources) : \A j \in 1..Len(sSources) :
    i # j => sSources[i].id # sSources[j].id

\* the sources without their ids
WithoutIds(sources) ==
  [i \in 1..Len(sources) |-> PresetSource(sources[i].position, sources[i].value)]

\* C24: setMode changes the mode and nothing else: the sources (ids,
\* positions, values, order) and the test charge stay; loadPreset with a
\* preset that has no mode keeps the mode and replaces the sources and the
\* test charge by those of the preset.
C24_ModeFrame ==
  [][/\ \A mode \in Modes :
          SetMode(mode) =>
            sMode' = mode /\ sSources' = sSources /\ sTestCharge' = sTestCharge
     /\ \A preset \in Presets :
          (LoadPreset(preset) /\ "mode" \notin DOMAIN preset) =>
            /\ sMode' = sMode
            /\ WithoutIds(sSources') = preset.sources
            /\ sTestCharge' = preset.testCharge]_vars

\* a preset without mode has been loaded in gravity mode, over sources and a
\* test charge that were not its own
C24_Witness ==
  /\ sMode = "gravity"
  /\ WithoutIds(sSources) = PRESET_TWO_LIKE_CHARGES.sources
  /\ sTestCharge = PRESET_TWO_LIKE_CHARGES.testCharge
  /\ sOps >= 2

\* the indices of the sources whose id is not id
Others(sources, id) == { i \in 1..Len(sources) : sources[i].id # id }

\* the j-th of these indices, in increasing order
NthOther(sources, id, j) ==
  CHOOSE i \in Others(sources, id) :
    Cardinality({k \in Others(sources, id) : k < i}) = j - 1

\* C28: updateSource(id, updates) changes the position or the value of the
\* source with that id and nothing else: every other source, the ids, the
\* number and the order of the sources stay; removeSource(id) removes the
\* source with that id and keeps the others in their order; both leave the
\* content of the store as it is when no source has that id, and neither
\* changes the mode or the test charge.
C28_TargetedMutations ==
  [][/\ \A id \in TargetIds, updates \in SourceUpdates :
          UpdateSource(id, updates) =>
            /\ Len(sSources') = Len(sSources)
            /\ \A i \in 1..Len(sSources) :
                 /\ sSources'[i].id = sSources[i].id
                 /\ sSources'[i].kind = sSources[i].kind
                 /\ sSources[i].id # id => sSources'[i] = sSources[i]
                 /\ sSources[i].id = id =>
                      /\ sSources'[i].position
                           = IF "position" \in DOMAIN updates
                               THEN updates.position ELSE sSources[i].position
                      /\ sSources'[i].value
                           = IF "value" \in DOMAIN updates
                               THEN updates.value ELSE sSources[i].value
            /\ C23_IdsUnique =>
                 Cardinality({i \in 1..Len(sSources) :
                                sSources'[i] # sSources[i]}) <= 1
            /\ id \notin IdsOf(sSources) => sSources' = sSources
            /\ sMode' = sMode /\ sTestCharge' = sTestCharge
     /\ \A id \in TargetIds :
          RemoveSource(id) =>
            /\ Len(sSources') = Cardinality(Others(sSources, id))
            /\ \A j \in 1..Len(sSources') :
                 sSources'[j] = sSources[NthOther(sSources, id, j)]
            /\ (C23_IdsUnique /\ id \in IdsOf(sSources)) =>
                 Len(sSources') = Len(sSources) - 1
            /\ id \notin IdsOf(sSources) => sSources' = sSources
            /\ sMode' = sMode /\ sTestCharge' = sTestCharge]_vars

\* the second of two sources with different ids has been moved, then the
\* first removed; the mode and the test charge are those of the preset
C28_Witness ==
  /\ sOps = 3 /\ sMode = "electric" /\ Len(sSources) = 1
  /\ sSources[1].position = <<Zero, Int2R(3), Zero>>
  /\ sSources[1].value = Int2R(-2)
  /\ sTestCharge = PRESET_DIPOLE.testCharge

\* the sources drawn as selected (ScenePanel.tsx line 106)
DrawnSelected == { i \in 1..Len(sSources) : uSelected = Some(sSources[i].id) }

\* C29: after any sequence of clicks on sources and of addSource,
\* removeSource and loadPreset, selectedSourceId is null or the id of a
\* source of the store, and at most one source is selected.
C29_SelectionValid ==
  /\ uSelected = Null \/ uSelected[1] \in IdsOf(sSources)
  /\ Cardinality(DrawnSelected) <= 1

(***************************************************************************)
(* Claim about handlePlaceAtEquilibrium, checked under SpecPlace           *)
(***************************************************************************)
\* C30: when findEquilibriumPoint returns null, handlePlaceAtEquilibrium
\* leaves the mode, the sources and the test charge as they are; when it
\* returns a position, only the test charge changes: its position becomes
\* that position and its value is the value of the test charge there was, or
\* the default of the mode if there was none.
C30_PlaceAtEquilibrium ==
  [][/\ (PlaceCall \/ EqNext) =>
          sMode' = sMode /\ sSources' = sSources /\ sTestCharge' = sTestCharge
     /\ PlaceFinish =>
          /\ sMode' = sMode /\ sSources' = sSources
          /\ eResult = NULL => sTestCharge' = sTestCharge
          /\ eResult # NULL =>
               /\ sTestCharge' # Null
               /\ sTestCharge'[1].position = eResult
               /\ sTestCharge'[1].value
                    = IF sTestCharge = Null
                        THEN (IF sMode = "electric" THEN PICO ELSE One)
                        ELSE sTestCharge[1].value]_vars

\* the handler has run at least twice on two like charges: the test charge
\* is at the position returned and still carries the default 1e-12 of the
\* first run, there being no test charge before it
C30_Witness ==
  /\ ePc = "idle" /\ sOps >= 2 /\ Len(sSources) = 2 /\ sMode = "electric"
  /\ sTestCharge # Null
  /\ sTestCharge[1].value = PICO
  /\ sTestCharge[1].position # <<Zero, Int2R(3), Zero>>

(***************************************************************************)
(* Claim about the memos of the field components, checked under SpecMemo   *)
(***************************************************************************)
\* what is shown is the value of the memo of the mounted component, and it
\* is the value computed from the sources and the mode of the store and the
\* parameter of App as they are now
ShownIsCurrent ==
  /\ uVisualization = "vector" =>
       /\ mFlow = Null /\ mVectors # Null
       /\ mVectors[1].value = fieldData(sSources, sMode, TRUE, uGridSize)
  /\ uVisualization = "streamline" =>
       /\ mVectors = Null /\ mFlow # Null
       /\ mFlow[1].value = fieldLines(sSources, sMode, TRUE, uDensity)

\* C22: after any sequence of addSource, updateSource, removeSource,
\* setMode, loadPreset and changes of the parameters, the arrows and the
\* lines shown are those computed from the sources, the mode and the
\* parameters of now, never from earlier ones or from a mix; and a step that
\* only draws a frame runs no memo again.
C22_ShownIsCurrent ==
  /\ []ShownIsCurrent
  /\ [][uPhase' # uPhase => mVectors' = mVectors /\ mFlow' = mFlow]_vars

\* lines are shown that were traced in the second run of the memo of
\* FieldFlow, after a preset changed the sources and the mode, and a frame
\* has been drawn since
C22_Witness ==
  /\ uVisualization = "streamline" /\ sMode = "gravity" /\ Len(sSources) = 1
  /\ mFlow # Null /\ mFlow[1].value # <<>>
  /\ mFlow[1].runs = 2 /\ sOps = 2 /\ uPhase = 1

====
